---- MODULE Spec2Model ----
(***************************************************************************)
(* A model of librtdi: the registry (registration, one-shot build with     *)
(* forward expansion, decorator application and validation) and the        *)
(* resolver (slot index, singleton cache behind a recursive mutex,         *)
(* factory invocation with error annotation).                              *)
(***************************************************************************)
EXTENDS Integers, Sequences, FiniteSets, TLC

(***************************************************************************)
(* Bounds of the model.                                                    *)
(***************************************************************************)
\* API calls made on one registry (registrations and builds together).
MaxCalls == 4
\* calls made on one resolver, by all threads together
MaxResolves == 3
\* objects made by make_erased in one scope
MaxObjects == 3

(***************************************************************************)
(* Values.                                                                 *)
(***************************************************************************)
Types == {"A", "B", "C"}
Keys == {"", "k"}
Impls == {"X", "Y"}
\* std::nullopt of an optional<type_index>
nullopt == "nullopt"

lifetime_kind == {"singleton", "transient"}

dependency_info(type, is_collection, is_transient) ==
    [type |-> type, is_collection |-> is_collection, is_transient |-> is_transient]

\* The closure a registration stores as the descriptor's factory.  kind names
\* the lambda: "ctor" resolves `deps` and constructs the implementation,
\* "forward_singleton" / "forward_transient" delegate to descriptor
\* `target_idx`, "placeholder" returns an empty erased_ptr.  `wrappers` are
\* the decorator closures wrapped around it, innermost first.
factory_fn(kind, deps, target_idx) ==
    [kind |-> kind, deps |-> deps, target_idx |-> target_idx, wrappers |-> <<>>]

descriptor(component_type, lifetime, factory, dependencies, key, is_collection, impl_type, forward_target) ==
    [component_type |-> component_type, lifetime |-> lifetime,
     factory |-> factory, dependencies |-> dependencies, key |-> key,
     is_collection |-> is_collection, impl_type |-> impl_type,
     forward_target |-> forward_target]

\* slot_key = (type, key, lifetime, is_collection)
slot_key(type, key, lifetime, is_collection) ==
    <<type, key, lifetime, is_collection>>

slot_of(d) == slot_key(d.component_type, d.key, d.lifetime, d.is_collection)

build_options(vob, vl, dc, es, aec) ==
    [validate_on_build |-> vob, validate_lifetimes |-> vl, detect_cycles |-> dc,
     eager_singletons |-> es, allow_empty_collections |-> aec]

DefaultOptions == build_options(TRUE, TRUE, TRUE, TRUE, TRUE)

VARIABLES
    \* registry::Impl
    descriptors, forwards, decorators, built,
    \* what the last registry call did: [op, error, type, cycle]
    result,
    \* calls made on the registry so far
    calls,
    \* the family of registration inputs this behaviour draws from
    family,
    \* resolver::impl of the resolver build() created: its descriptors and
    \* slot index, and whether build() returned it to the caller
    r_descriptors, slot_to_indices, resolver_returned,
    \* resolver::impl: the singleton cache (descriptor index -> erased_ptr)
    \* and the recursive mutex that guards it
    singletons, singleton_mutex,
    \* the objects constructed so far, how often each has been destroyed,
    \* and whether the resolver itself exists
    heap, deleted, alive,
    \* per thread: its call stack inside the resolver, and the state of its
    \* current or last call
    stacks, call_states,
    \* per descriptor: the times its factory was invoked, returned and
    \* threw, and the pointers its resolution has handed out
    invocations, completions, failures, handed,
    \* calls made on the resolver so far
    resolves,
    \* the erased_ptr variables in scope (name -> erased_ptr) and the objects
    \* whose ownership release() gave to the caller
    locals, released

(***************************************************************************)
(* Validation (validation.cpp).                                            *)
(***************************************************************************)
NoError == [error |-> "none", type |-> nullopt, consumer |-> 0, cycle |-> <<>>]

build_slot_index_latest(descs) ==
    [sk \in {slot_of(descs[i]) : i \in 1..Len(descs)} |->
        <<CHOOSE i \in 1..Len(descs) :
            /\ slot_of(descs[i]) = sk
            /\ \A j \in (i + 1)..Len(descs) : slot_of(descs[j]) # sk>>]

\* slot_key -> the indices of the descriptors in that slot, ascending
build_slot_index(descs) ==
    [sk \in {slot_of(descs[i]) : i \in 1..Len(descs)} |->
        SelectSeq([i \in 1..Len(descs) |-> i],
                  LAMBDA i : slot_of(descs[i]) = sk)]

\* slot_idx.find(sk) == end() || it->second.empty()
slot_missing(slot_idx, sk) ==
    \/ sk \notin DOMAIN slot_idx
    \/ slot_idx[sk] = <<>>

\* the slot a declared dependency is looked up in: deps always use the empty key
needed_slot(dep) ==
    slot_key(dep.type, "",
             IF dep.is_transient THEN "transient" ELSE "singleton",
             dep.is_collection)

\* the positions <<i, j>> (descriptor i, its dependency j) the two nested
\* loops of a validation pass visit
dependency_positions(descs) ==
    UNION {{<<i, j>> : j \in 1..Len(descs[i].dependencies)} :
                i \in 1..Len(descs)}

\* the first of the positions in hits, in the order of the two nested loops;
\* <<0, 0>> if there is none
first_dependency(hits) ==
    IF hits = {} THEN <<0, 0>>
    ELSE CHOOSE p \in hits :
            \A q \in hits : p[1] < q[1] \/ (p[1] = q[1] /\ p[2] <= q[2])

\* check_missing_dependencies letting a registration under any key satisfy
\* a dependency
check_missing_dependencies_any_key(descs, slot_idx, options) ==
    LET Bad(i, j) ==
            LET dep == descs[i].dependencies[j]
            IN /\ ~(dep.is_collection /\ options.allow_empty_collections)
               /\ \A k \in Keys :
                    LET n == needed_slot(dep)
                    IN slot_missing(slot_idx, slot_key(n[1], k, n[3], n[4]))
        p == first_dependency({q \in dependency_positions(descs) :
                                Bad(q[1], q[2])})
    IN IF p = <<0, 0>> THEN NoError
       ELSE [error |-> "not_found", type |-> descs[p[1]].dependencies[p[2]].type,
             consumer |-> p[1], cycle |-> <<>>]

\* check_missing_dependencies skipping every collection dependency
check_missing_dependencies_but_collections(descs, slot_idx, options) ==
    LET Bad(i, j) ==
            LET dep == descs[i].dependencies[j]
            IN /\ ~dep.is_collection
               /\ slot_missing(slot_idx, needed_slot(dep))
        p == first_dependency({q \in dependency_positions(descs) :
                                Bad(q[1], q[2])})
    IN IF p = <<0, 0>> THEN NoError
       ELSE [error |-> "not_found", type |-> descs[p[1]].dependencies[p[2]].type,
             consumer |-> p[1], cycle |-> <<>>]

check_missing_dependencies(descs, slot_idx, options) ==
    LET Bad(i, j) ==
            LET dep == descs[i].dependencies[j]
            IN /\ ~(dep.is_collection /\ options.allow_empty_collections)
               /\ slot_missing(slot_idx, needed_slot(dep))
        p == first_dependency({q \in dependency_positions(descs) :
                                Bad(q[1], q[2])})
    IN IF p = <<0, 0>> THEN NoError
       ELSE [error |-> "not_found", type |-> descs[p[1]].dependencies[p[2]].type,
             consumer |-> p[1], cycle |-> <<>>]

\* check_lifetime_rules rejecting collections of transients too
check_lifetime_rules_any_transient(descs) ==
    LET Bad(i, j) ==
            LET dep == descs[i].dependencies[j]
            IN /\ descs[i].lifetime = "singleton"
               /\ dep.is_transient
        p == first_dependency({q \in dependency_positions(descs) :
                                Bad(q[1], q[2])})
    IN IF p = <<0, 0>> THEN NoError
       ELSE [error |-> "lifetime_mismatch",
             type |-> descs[p[1]].dependencies[p[2]].type,
             consumer |-> p[1], cycle |-> <<>>]

check_lifetime_rules(descs) ==
    LET Bad(i, j) ==
            LET dep == descs[i].dependencies[j]
            IN /\ descs[i].lifetime = "singleton"
               /\ dep.is_transient /\ ~dep.is_collection
        p == first_dependency({q \in dependency_positions(descs) :
                                Bad(q[1], q[2])})
    IN IF p = <<0, 0>> THEN NoError
       ELSE [error |-> "lifetime_mismatch",
             type |-> descs[p[1]].dependencies[p[2]].type,
             consumer |-> p[1], cycle |-> <<>>]

\* the dependencies the loops of dfs walk for a node: those of every
\* descriptor in the slot, in slot order, each descriptor's in declared order
RECURSIVE slot_dependencies(_, _)
slot_dependencies(descs, indices) ==
    IF indices = <<>> THEN <<>>
    ELSE descs[Head(indices)].dependencies \o slot_dependencies(descs, Tail(indices))

\* the cycle taken from the start of the path
find_in_path_begin(path, node, i) == 1

\* std::find(path.begin(), path.end(), node)
RECURSIVE find_in_path(_, _, _)
find_in_path(path, node, i) ==
    IF i > Len(path) THEN i
    ELSE IF path[i] = node THEN i
    ELSE find_in_path(path, node, i + 1)

\* dfs returns the visit states and the cycle it threw (<<>>: it returned)
RECURSIVE dfs(_, _, _, _, _, _, _)
RECURSIVE dfs_each(_, _, _, _, _)
dfs(node, is_collection, is_transient, slot_idx, descs, states, path) ==
    IF states[node] = "done" THEN [states |-> states, cycle |-> <<>>]
    ELSE IF states[node] = "in_progress"
    THEN [states |-> states,
          cycle |-> Append(SubSeq(path, find_in_path(path, node, 1), Len(path)),
                           node)]
    ELSE LET sk == slot_key(node, "",
                            IF is_transient THEN "transient" ELSE "singleton",
                            is_collection)
             deps == IF sk \in DOMAIN slot_idx
                     THEN slot_dependencies(descs, slot_idx[sk]) ELSE <<>>
             r == dfs_each(deps, slot_idx, descs,
                           [states EXCEPT ![node] = "in_progress"],
                           Append(path, node))
         IN IF r.cycle # <<>> THEN r
            ELSE [states |-> [r.states EXCEPT ![node] = "done"], cycle |-> <<>>]

dfs_each(deps, slot_idx, descs, states, path) ==
    IF deps = <<>> THEN [states |-> states, cycle |-> <<>>]
    ELSE LET dep == Head(deps)
             r == dfs(dep.type, dep.is_collection, dep.is_transient,
                      slot_idx, descs, states, path)
         IN IF r.cycle # <<>> THEN r
            ELSE dfs_each(Tail(deps), slot_idx, descs, r.states, path)

RECURSIVE check_cycles_from(_, _, _, _)
check_cycles_from(i, descs, slot_idx, states) ==
    IF i > Len(descs) THEN NoError
    ELSE IF states[descs[i].component_type] # "unvisited"
    THEN check_cycles_from(i + 1, descs, slot_idx, states)
    ELSE LET r == dfs(descs[i].component_type, descs[i].is_collection,
                      descs[i].lifetime = "transient", slot_idx, descs,
                      states, <<>>)
         IN IF r.cycle # <<>>
            THEN [error |-> "cyclic_dependency", type |-> nullopt,
                  consumer |-> 0, cycle |-> r.cycle]
            ELSE check_cycles_from(i + 1, descs, slot_idx, r.states)

check_cycles(descs, slot_idx) ==
    check_cycles_from(1, descs, slot_idx, [t \in Types |-> "unvisited"])

validate_descriptors(descs, options) ==
    LET slot_idx == build_slot_index(descs)
        missing == check_missing_dependencies(descs, slot_idx, options)
        captive == IF options.validate_lifetimes
                   THEN check_lifetime_rules(descs) ELSE NoError
        cyclic == IF options.detect_cycles
                  THEN check_cycles(descs, slot_idx) ELSE NoError
    IN IF missing.error # "none" THEN missing
       ELSE IF captive.error # "none" THEN captive
       ELSE cyclic

(***************************************************************************)
(* Registry (registry.cpp).                                                *)
(***************************************************************************)
Outcome(op, err) == [op |-> op, error |-> err.error, type |-> err.type,
                     consumer |-> err.consumer, cycle |-> err.cycle]

Ok(op) == Outcome(op, NoError)

Thrown(op, error, type) ==
    Outcome(op, [error |-> error, type |-> type, consumer |-> 0, cycle |-> <<>>])

\* has_single comparing the type and key only
has_single_any_lifetime(descs, type, key, lt) ==
    \E i \in 1..Len(descs) :
        /\ descs[i].component_type = type
        /\ descs[i].key = key
        /\ ~descs[i].is_collection

\* registry::Impl::has_single
has_single(descs, type, key, lt) ==
    \E i \in 1..Len(descs) :
        /\ descs[i].component_type = type
        /\ descs[i].key = key
        /\ descs[i].lifetime = lt
        /\ ~descs[i].is_collection

ForwardEntry(interface_type, target_type) ==
    [interface_type |-> interface_type, target_type |-> target_type]

DecoratorEntry(interface_type, target_impl, wrapper, extra_deps) ==
    [interface_type |-> interface_type, target_impl |-> target_impl,
     wrapper |-> wrapper, extra_deps |-> extra_deps]

\* the descriptor forward expansion makes of target descriptor i
forward_descriptor(fwd, descs, i) ==
    LET target == descs[i]
    IN IF target.lifetime = "singleton"
       THEN descriptor(fwd.interface_type, "singleton",
                       factory_fn("forward_singleton", <<>>, i),
                       <<dependency_info(fwd.target_type, target.is_collection, FALSE)>>,
                       "", target.is_collection, target.impl_type, fwd.target_type)
       ELSE descriptor(fwd.interface_type, "transient",
                       factory_fn("forward_transient", <<>>, i),
                       <<dependency_info(fwd.target_type, target.is_collection,
                                         target.lifetime = "transient")>>,
                       "", target.is_collection, target.impl_type, fwd.target_type)

placeholder_descriptor(fwd) ==
    descriptor(fwd.interface_type, "transient", factory_fn("placeholder", <<>>, 0),
               <<dependency_info(fwd.target_type, FALSE, FALSE)>>,
               "", FALSE, nullopt, fwd.target_type)

\* what one forward entry adds to `expanded`
expand_forward(fwd, descs) ==
    LET matches == SelectSeq([i \in 1..Len(descs) |-> i],
                             LAMBDA i : /\ descs[i].component_type = fwd.target_type
                                        /\ descs[i].key = "")
    IN IF matches = <<>> THEN <<placeholder_descriptor(fwd)>>
       ELSE [k \in 1..Len(matches) |-> forward_descriptor(fwd, descs, matches[k])]

\* step 1 of build: the descriptors with `expanded` appended
RECURSIVE expanded_descriptors(_, _)
expanded_descriptors(fwds, descs) ==
    IF fwds = <<>> THEN <<>>
    ELSE expand_forward(Head(fwds), descs) \o expanded_descriptors(Tail(fwds), descs)

expand_forwards(fwds, descs) == descs \o expanded_descriptors(fwds, descs)

decorator_matches_any_impl(dec, desc) ==
    desc.component_type = dec.interface_type

decorator_matches(dec, desc) ==
    /\ desc.component_type = dec.interface_type
    /\ \/ dec.target_impl = nullopt
       \/ (desc.impl_type # nullopt /\ desc.impl_type = dec.target_impl)

\* a decoration that keeps the extra dependencies to itself
decorate_descriptor_undeclared(dec, desc) ==
    [desc EXCEPT
        !.factory.wrappers = Append(@, [decorator |-> dec.wrapper,
                                        extra |-> dec.extra_deps])]

\* desc.factory = dec.wrapper(std::move(desc.factory)); append extra deps
decorate_descriptor(dec, desc) ==
    [desc EXCEPT
        !.factory.wrappers = Append(@, [decorator |-> dec.wrapper,
                                        extra |-> dec.extra_deps]),
        !.dependencies = @ \o dec.extra_deps]

\* step 2 of build: every decorator, in registered order, over every descriptor
RECURSIVE apply_decorators(_, _)
apply_decorators(decs, descs) ==
    IF decs = <<>> THEN descs
    ELSE apply_decorators(Tail(decs),
            [i \in 1..Len(descs) |->
                IF decorator_matches(Head(decs), descs[i])
                THEN decorate_descriptor(Head(decs), descs[i])
                ELSE descs[i]])

(***************************************************************************)
(* Resolver (resolver.cpp, resolver.hpp): values.                          *)
(***************************************************************************)
Threads == {"main", "worker"}
no_thread == "none"

\* a typed pointer: the object it addresses and the static type it is
\* seen through; obj 0 is nullptr
pointer(obj, view) == [obj |-> obj, view |-> view]
null == pointer(0, nullopt)

\* static_cast of a pointer to another interface of the same object
static_cast(p, type) == IF p = null THEN null ELSE pointer(p.obj, type)

\* erased_ptr: the pointer and the deleter; deleter = nullopt is nullptr
\* (non-owning), otherwise the type it deletes through.  `items` is the
\* vector a collection call returns (empty for a single pointer).
erased_ptr(ptr, deleter) == [ptr |-> ptr, deleter |-> deleter, items |-> <<>>]
empty_erased == erased_ptr(null, nullopt)
raw_ptr(ptr) == erased_ptr(ptr, nullopt)
\* unique_ptr<T>(static_cast<T*>(ep.release()))
unique_ptr(ep, type) == erased_ptr(static_cast(ep.ptr, type),
                                  IF ep.ptr = null THEN nullopt ELSE type)
vector(items) == [ptr |-> null, deleter |-> nullopt, items |-> items]
\* std::vector<std::unique_ptr<T>>: every item is owned
unique_ptrs(items, type) == [ptr |-> null, deleter |-> type, items |-> items]

\* an exception in flight: its class, the component it names and its
\* resolution context (" -> "-joined tags, oldest first)
exception(class, type) == [class |-> class, type |-> type, context |-> <<>>]
no_exception == exception("none", nullopt)
di_errors == {"di_error", "not_found", "resolution_error", "cyclic_dependency",
              "lifetime_mismatch", "duplicate_registration"}
\* what a user constructor can do: return, or throw a di_error, another
\* std::exception, or a value that is no std::exception
ConstructOutcomes == {"ok", "di_error", "std_exception", "value"}

\* one activation on a thread's call stack
frame(fn, type, key, idx) ==
    [fn |-> fn, type |-> type, key |-> key, idx |-> idx, pc |-> "start",
     layer |-> 0, pos |-> 0, todo |-> <<>>, acc |-> <<>>, inner |-> empty_erased]

\* the outcome of a thread's last call on the resolver
call_state(status, value, exc) == [status |-> status, value |-> value, exc |-> exc]
idle == call_state("idle", empty_erased, no_exception)

\* an object on the heap: its class, the descriptor and factory layer that
\* constructed it, the arguments injected and (for a decorator) the
\* decorated_ptr it holds
object(class, idx, layer, args, inner) ==
    [class |-> class, idx |-> idx, layer |-> layer, args |-> args, inner |-> inner]

(***************************************************************************)
(* Resolver: the machine.  A machine state m has the fields of             *)
(* resolver::impl (descriptors, slot_to_indices, singletons,               *)
(* singleton_mutex), the heap, each thread's call stack and call outcome,  *)
(* and counters of what each descriptor's factory has done.                *)
(***************************************************************************)
Top(m, t) == m.stacks[t][Len(m.stacks[t])]
Push(m, t, f) == [m EXCEPT !.stacks[t] = Append(@, f)]
Pop(m, t) == [m EXCEPT !.stacks[t] = SubSeq(@, 1, Len(@) - 1)]
SetTop(m, t, f) == [m EXCEPT !.stacks[t][Len(m.stacks[t])] = f]

\* std::recursive_mutex: free, or held `count` times by `owner`
free_mutex == [owner |-> no_thread, count |-> 0]
may_lock_unguarded(m, t) == TRUE
\* a std::mutex in its place: the owner cannot lock it again
may_lock_once(m, t) == m.singleton_mutex.owner = no_thread
may_lock(m, t) == m.singleton_mutex.owner \in {no_thread, t}
lock(m, t) == [m EXCEPT !.singleton_mutex = [owner |-> t, count |-> @.count + 1]]
unlock(m, t) ==
    [m EXCEPT !.singleton_mutex =
        IF @.count = 1 THEN free_mutex ELSE [owner |-> t, count |-> @.count - 1]]

\* impl::find_slot: the indices of the slot, <<>> for nullptr
find_slot(m, type, key, lt, is_coll) ==
    LET sk == slot_key(type, key, lt, is_coll)
    IN IF sk \in DOMAIN m.slot_to_indices THEN m.slot_to_indices[sk] ELSE <<>>

\* singletons.find(idx)
cache_lookup_miss(m, idx) == FALSE
cache_lookup(m, idx) == idx \in DOMAIN m.singletons

\* an emplace that leaves idx's entry the only one
emplace_alone(m, idx, instance) ==
    [m EXCEPT !.singletons = [i \in {idx} |-> instance]]

\* singletons.emplace(idx, instance): no effect when idx is present
emplace(m, idx, instance) ==
    IF idx \in DOMAIN m.singletons THEN m
    ELSE [m EXCEPT !.singletons =
            [i \in DOMAIN @ \cup {idx} |-> IF i = idx THEN instance ELSE @[i]]]

\* the objects a value owns and deletes when it is destroyed: the pointee of
\* an erased_ptr or unique_ptr with a deleter, every item of a vector of
\* unique_ptr; nothing for a raw pointer or a vector of raw pointers
owned(ep) ==
    IF ep.deleter = nullopt THEN <<>>
    ELSE IF ep.items # <<>>
    THEN [k \in 1..Len(ep.items) |-> ep.items[k].obj]
    ELSE IF ep.ptr = null THEN <<>>
    ELSE <<ep.ptr.obj>>

\* what the k-th and later values of a tuple own together
RECURSIVE owned_from(_, _)
owned_from(eps, k) ==
    IF k > Len(eps) THEN <<>> ELSE owned(eps[k]) \o owned_from(eps, k + 1)

\* what a tuple of arguments, or the cache's entries, own together
owned_by_all(eps) == owned_from(eps, 1)

\* delete p for every object of the sequence: its destructor runs, which
\* destroys the decorated_ptr and the injected unique_ptrs the object holds
RECURSIVE delete(_, _)
delete(m, objs) ==
    IF objs = <<>> THEN m
    ELSE LET o == Head(objs)
         IN delete([m EXCEPT !.deleted[o] = @ + 1],
                   owned(m.heap[o].inner) \o owned_by_all(m.heap[o].args)
                        \o Tail(objs))

\* erased_ptr::reset / ~erased_ptr / ~unique_ptr
reset(m, ep) == delete(m, owned(ep))

\* the values a function's activation holds and destroys when an exception
\* unwinds it: a factory closure the arguments evaluated so far and the
\* inner instance, create_all the unique_ptrs collected so far
unwound(f) ==
    IF f.fn = "factory" THEN owned(f.inner) \o owned_by_all(f.acc)
    ELSE IF f.fn = "create_all" THEN [k \in 1..Len(f.acc) |-> f.acc[k].obj]
    ELSE <<>>

\* the tag a resolve_*_by_index catch block appends to a di_error
context_tag(desc) == <<desc.component_type, desc.impl_type>>

\* catch blocks that wrap a resolution_error like any other std::exception
rethrown_rewrapping(desc, e) ==
    IF e.class \in di_errors \ {"resolution_error"}
    THEN [e EXCEPT !.context = Append(@, context_tag(desc))]
    ELSE IF e.class \in {"std_exception", "resolution_error"}
    THEN exception("resolution_error", desc.component_type)
    ELSE e

\* catch blocks that put their tag in front of the chain
rethrown_outermost_first(desc, e) ==
    IF e.class \in di_errors
    THEN [e EXCEPT !.context = <<context_tag(desc)>> \o @]
    ELSE IF e.class = "std_exception"
    THEN exception("resolution_error", desc.component_type)
    ELSE e

\* the catch blocks of resolve_*_by_index: what leaves the function when
\* the factory threw e
rethrown(desc, e) ==
    IF e.class \in di_errors
    THEN [e EXCEPT !.context = Append(@, context_tag(desc))]
    ELSE IF e.class = "std_exception"
    THEN exception("resolution_error", desc.component_type)
    ELSE e

\* is this thread already inside the factory of descriptor idx?
in_factory(m, t, idx) ==
    \E i \in 1..Len(m.stacks[t]) :
        m.stacks[t][i].fn = "factory" /\ m.stacks[t][i].idx = idx

\* the dependencies a factory layer resolves: the constructor's at layer 0,
\* a decorator's extras above
layer_deps(desc, layer) ==
    IF layer = 0 THEN desc.factory.deps
    ELSE desc.factory.wrappers[layer].extra

\* the resolver call resolve_dep<D> makes
resolve_dep(dep) ==
    IF dep.is_collection /\ dep.is_transient THEN "create_all"
    ELSE IF dep.is_collection THEN "get_all"
    ELSE IF dep.is_transient THEN "create"
    ELSE "get"

singleton_calls == {"get", "try_get", "get_all"}
collection_calls == {"get_all", "create_all"}
\* accessors that all fail on a null result
throwing_calls_all == {"get", "create", "try_get", "try_create"}
throwing_calls == {"get", "create"}

\* what the failure of a singleton's factory does to the resolver before
\* the exception leaves resolve_singleton_by_index: the lock_guard unlocks
singleton_failed_cached(m, t, idx) ==
    unlock(emplace([m EXCEPT !.failures[idx] = @ + 1], idx, empty_erased), t)
\* ... or the lock stays taken when the exception leaves
singleton_failed_locked(m, t, idx) == [m EXCEPT !.failures[idx] = @ + 1]
singleton_failed(m, t, idx) ==
    unlock([m EXCEPT !.failures[idx] = @ + 1], t)

\* a thread that re-enters a factory it is already inside recurses without
\* bound (the constructors of one recursion behave alike): it never returns
diverge(m, t) ==
    [m EXCEPT !.call_states[t] = call_state("diverged", empty_erased, no_exception)]

blank_args(deps) == [p \in 1..Len(deps) |-> empty_erased]
positions(deps) == [p \in 1..Len(deps) |-> p]

\* a forward closure that returns an owning erased_ptr for singletons too
forwarded_owning(desc, v) ==
    erased_ptr(static_cast(v.ptr, desc.component_type), desc.component_type)

\* what a forward closure returns for the pointer v its target resolved to:
\* erased_ptr(cast(raw), nullptr) for a singleton, erased_ptr(cast(original),
\* fwd_deleter) for a transient
forwarded(desc, v) ==
    erased_ptr(static_cast(v.ptr, desc.component_type),
               IF desc.factory.kind = "forward_singleton"
               THEN nullopt ELSE desc.component_type)

RECURSIVE return_value(_, _, _)
RECURSIVE raise(_, _, _)
RECURSIVE invoke_factory(_, _, _)
RECURSIVE layer_done(_, _, _)
RECURSIVE resolve_transient_by_index(_, _, _)

\* resolve_singleton_by_index is entered: the thread is at the lock_guard
resolve_singleton_by_index(m, t, idx) ==
    Push(m, t, [frame("resolve_singleton_by_index", nullopt, "", idx)
                    EXCEPT !.pc = "lock"])

resolve_transient_cached(m, t, idx) == resolve_singleton_by_index(m, t, idx)

\* resolve_transient_by_index is entered: no lock, no cache, the factory runs
resolve_transient_by_index(m, t, idx) ==
    invoke_factory(
        Push(m, t, [frame("resolve_transient_by_index", nullopt, "", idx)
                        EXCEPT !.pc = "factory"]),
        t, idx)

\* desc.factory(*this) is called
invoke_factory(m, t, idx) ==
    LET desc == m.descriptors[idx]
        m1 == [m EXCEPT !.invocations[idx] = @ + 1]
        f0 == frame("factory", nullopt, "", idx)
    IN IF in_factory(m, t, idx) THEN diverge(m1, t)
       ELSE CASE desc.factory.kind = "ctor" ->
                    Push(m1, t, [f0 EXCEPT !.pc = "construct",
                                           !.todo = positions(desc.factory.deps),
                                           !.acc = blank_args(desc.factory.deps)])
              [] desc.factory.kind = "forward_singleton" ->
                    resolve_singleton_by_index(
                        Push(m1, t, [f0 EXCEPT !.pc = "target"]),
                        t, desc.factory.target_idx)
              [] desc.factory.kind = "forward_transient" ->
                    resolve_transient_by_index(
                        Push(m1, t, [f0 EXCEPT !.pc = "target"]),
                        t, desc.factory.target_idx)
              [] desc.factory.kind = "placeholder" ->
                    layer_done(Push(m1, t, f0), t, empty_erased)

\* a layer of the factory on top of t's stack has produced ep: the next
\* decorator closure takes it as `inner(r)`, or the factory returns it
layer_done(m, t, ep) ==
    LET f == Top(m, t)
        wrappers == m.descriptors[f.idx].factory.wrappers
    IN IF f.layer < Len(wrappers)
       THEN SetTop(m, t, [f EXCEPT !.layer = @ + 1,
                                   !.inner = ep,
                                   !.pc = "construct",
                                   !.pos = 0,
                                   !.todo = positions(wrappers[f.layer + 1].extra),
                                   !.acc = blank_args(wrappers[f.layer + 1].extra)])
       ELSE return_value(Pop(m, t), t, ep)

\* the function on top of t's stack receives v from its callee and runs on
\* to its next call, lock or constructor
return_value(m, t, v) ==
    IF m.stacks[t] = <<>>
    THEN [m EXCEPT !.call_states[t] = call_state("returned", v, no_exception)]
    ELSE LET f == Top(m, t)
             desc == m.descriptors[f.idx]
         IN CASE f.fn = "resolve_singleton_by_index" ->
                    \* raw = instance.get(); emplace; unlock; return raw
                    LET m1 == unlock(emplace(m, f.idx, v), t)
                        m2 == [m1 EXCEPT !.completions[f.idx] = @ + 1,
                                         !.handed[f.idx] = @ \cup {v.ptr}]
                    IN return_value(Pop(m2, t), t, raw_ptr(v.ptr))
              [] f.fn = "resolve_transient_by_index" ->
                    LET m1 == [m EXCEPT !.completions[f.idx] = @ + 1,
                                        !.handed[f.idx] = @ \cup {v.ptr}]
                    IN return_value(Pop(m1, t), t, v)
              [] f.fn = "factory" /\ f.pc = "target" ->
                    \* a forward closure: cast what the target resolved to
                    layer_done(m, t, forwarded(desc, v))
              [] f.fn = "factory" /\ f.pc # "target" ->
                    \* resolve_dep<D>(r) returned argument f.pos
                    SetTop(m, t, [f EXCEPT !.acc[f.pos] = v, !.pos = 0])
              [] f.fn = "build" ->
                    \* the eager loop of registry::build
                    IF f.todo = <<>>
                    THEN return_value(Pop(m, t), t, empty_erased)
                    ELSE resolve_singleton_by_index(
                            SetTop(m, t, [f EXCEPT !.todo = Tail(@)]),
                            t, Head(f.todo))
              [] f.fn \in collection_calls ->
                    LET acc == Append(f.acc, static_cast(v.ptr, f.type))
                        m1 == SetTop(m, t, [f EXCEPT !.acc = acc, !.todo = Tail(@)])
                    IN IF f.todo = <<>>
                       THEN return_value(Pop(m, t), t,
                                IF f.fn = "get_all" THEN vector(acc)
                                ELSE unique_ptrs(acc, f.type))
                       ELSE IF f.fn = "get_all"
                       THEN resolve_singleton_by_index(m1, t, Head(f.todo))
                       ELSE resolve_transient_by_index(m1, t, Head(f.todo))
              [] OTHER ->
                    \* get / try_get / create / try_create
                    IF v.ptr = null /\ f.fn \in throwing_calls
                    THEN raise(Pop(m, t), t, exception("not_found", f.type))
                    ELSE return_value(Pop(m, t), t,
                            IF f.fn \in singleton_calls
                            THEN raw_ptr(static_cast(v.ptr, f.type))
                            ELSE unique_ptr(v, f.type))

\* e propagates out of the function on top of t's stack
raise(m, t, e) ==
    IF m.stacks[t] = <<>>
    THEN [m EXCEPT !.call_states[t] = call_state("threw", empty_erased, e)]
    ELSE LET f == Top(m, t)
             desc == m.descriptors[f.idx]
         IN CASE f.fn = "resolve_singleton_by_index" ->
                    raise(Pop(singleton_failed(m, t, f.idx), t), t, rethrown(desc, e))
              [] f.fn = "resolve_transient_by_index" ->
                    raise(Pop([m EXCEPT !.failures[f.idx] = @ + 1], t), t,
                          rethrown(desc, e))
              [] OTHER -> raise(Pop(delete(m, unwound(f)), t), t, e)

\* a call of the resolver's public interface, from user code or resolve_dep
call(m, t, fn, type, key) ==
    LET lt == IF fn \in singleton_calls THEN "singleton" ELSE "transient"
        is_coll == fn \in collection_calls
        indices == find_slot(m, type, key, lt, is_coll)
        m1 == Push(m, t, [frame(fn, type, key, 0)
                            EXCEPT !.todo = IF is_coll THEN Tail(indices) ELSE <<>>])
    IN IF indices = <<>>
       THEN IF fn \in throwing_calls
            THEN raise(m, t, exception("not_found", type))
            ELSE return_value(m, t, IF is_coll THEN vector(<<>>) ELSE empty_erased)
       ELSE IF lt = "singleton"
       THEN resolve_singleton_by_index(m1, t, Head(indices))
       ELSE resolve_transient_by_index(m1, t, Head(indices))

(***************************************************************************)
(* Resolver: the steps a thread takes.                                     *)
(***************************************************************************)
\* the lock_guard of resolve_singleton_by_index is acquired: a cached
\* instance is returned, otherwise the factory is invoked under the lock
acquire(m, t) ==
    LET f == Top(m, t)
        m1 == lock(m, t)
    IN IF cache_lookup(m1, f.idx)
       THEN LET cached == m1.singletons[f.idx]
                m2 == [unlock(m1, t) EXCEPT !.handed[f.idx] = @ \cup {cached.ptr}]
            IN return_value(Pop(m2, t), t, raw_ptr(cached.ptr))
       ELSE invoke_factory(SetTop(m1, t, [f EXCEPT !.pc = "factory"]), t, f.idx)

\* the factory on top of the stack evaluates the k-th of its pending
\* arguments (the order of argument evaluation is unspecified)
resolve_argument(m, t, k) ==
    LET f == Top(m, t)
        pos == f.todo[k]
        dep == layer_deps(m.descriptors[f.idx], f.layer)[pos]
        rest == SelectSeq(f.todo, LAMBDA p : p # pos)
    IN call(SetTop(m, t, [f EXCEPT !.todo = rest, !.pos = pos]),
            t, resolve_dep(dep), dep.type, "")

\* new TImpl(args...) / new TDecorator(handle, extras...)
construct(m, t, outcome) ==
    LET f == Top(m, t)
        desc == m.descriptors[f.idx]
        class == IF f.layer = 0 THEN desc.impl_type
                 ELSE desc.factory.wrappers[f.layer].decorator
        id == Len(m.heap) + 1
        m1 == [m EXCEPT !.heap = Append(@, object(class, f.idx, f.layer, f.acc, f.inner)),
                        !.deleted = Append(@, 0)]
    IN IF outcome = "ok"
       THEN layer_done(m1, t, erased_ptr(pointer(id, desc.component_type),
                                         desc.component_type))
       ELSE raise(m, t, exception(outcome, nullopt))

\* a resolver as resolver::create makes it of the descriptors it is given
new_resolver(descs) ==
    [descriptors |-> descs,
     slot_to_indices |-> build_slot_index(descs),
     singletons |-> <<>>,
     singleton_mutex |-> free_mutex,
     heap |-> <<>>,
     deleted |-> <<>>,
     alive |-> TRUE,
     stacks |-> [t \in Threads |-> <<>>],
     call_states |-> [t \in Threads |-> idle],
     invocations |-> [i \in 1..Len(descs) |-> 0],
     completions |-> [i \in 1..Len(descs) |-> 0],
     failures |-> [i \in 1..Len(descs) |-> 0],
     handed |-> [i \in 1..Len(descs) |-> {}]]

\* resolver::~resolver: the cache is destroyed, and every entry with a
\* deleter deletes its instance (in the unordered_map's order, which does
\* not change how often an object is deleted)
destroy(m) ==
    LET cached == SelectSeq([i \in 1..Len(m.descriptors) |-> i],
                            LAMBDA i : i \in DOMAIN m.singletons)
        entries == [k \in 1..Len(cached) |-> m.singletons[cached[k]]]
    IN [delete(m, owned_by_all(entries)) EXCEPT !.singletons = <<>>,
                                                !.alive = FALSE]

\* how the user code met during one build() behaves: the class whose
\* constructor throws (nullopt: none does), what it throws, and whether the
\* compiler evaluates a call's arguments first to last or last to first
Decorators == {"D1", "D2"}
Behaviours ==
    {[throwing |-> nullopt, outcome |-> "ok", order |-> o] : o \in {"ltr", "rtl"}}
    \cup [throwing : Impls \cup Decorators,
          outcome : ConstructOutcomes \ {"ok"},
          order : {"ltr", "rtl"}]

\* the behaviours that can differ on these descriptors: a class that is
\* never constructed cannot throw, and the order of evaluation shows only
\* where a call has two arguments to evaluate
classes_of(descs) ==
    {descs[i].impl_type : i \in 1..Len(descs)}
    \cup UNION {{descs[i].factory.wrappers[k].decorator :
                    k \in 1..Len(descs[i].factory.wrappers)} : i \in 1..Len(descs)}

BehavioursOn(descs) ==
    {u \in Behaviours :
        /\ u.throwing \in classes_of(descs) \cup {nullopt}
        /\ u.order = "rtl" =>
            \E i \in 1..Len(descs) :
                \/ Len(descs[i].factory.deps) > 1
                \/ \E k \in 1..Len(descs[i].factory.wrappers) :
                        Len(descs[i].factory.wrappers[k].extra) > 1}

\* thread t runs alone until its call returns, throws or diverges
RECURSIVE run(_, _, _)
run(m, t, user) ==
    IF m.call_states[t].status # "running" THEN m
    ELSE LET f == Top(m, t)
             desc == m.descriptors[f.idx]
             class == IF f.layer = 0 THEN desc.impl_type
                      ELSE desc.factory.wrappers[f.layer].decorator
         IN IF f.fn = "resolve_singleton_by_index" THEN run(acquire(m, t), t, user)
            ELSE IF f.todo # <<>>
            THEN run(resolve_argument(m, t, IF user.order = "ltr" THEN 1
                                            ELSE Len(f.todo)), t, user)
            ELSE run(construct(m, t, IF class = user.throwing THEN user.outcome
                                     ELSE "ok"), t, user)

eager_singletons_every(descs, user) ==
    LET r == new_resolver(descs)
        m == Push([r EXCEPT !.call_states["main"] =
                        call_state("running", empty_erased, no_exception)],
                  "main", [frame("build", nullopt, "", 0)
                              EXCEPT !.todo = SelectSeq([i \in 1..Len(descs) |-> i],
                                                        LAMBDA i : TRUE)])
    IN run(return_value(m, "main", empty_erased), "main", user)

eager_singletons_first(descs, user) ==
    LET singleton_indices == SelectSeq([i \in 1..Len(descs) |-> i],
                                       LAMBDA i : descs[i].lifetime = "singleton")
        r == new_resolver(descs)
        m == Push([r EXCEPT !.call_states["main"] =
                        call_state("running", empty_erased, no_exception)],
                  "main", [frame("build", nullopt, "", 0)
                              EXCEPT !.todo = SubSeq(singleton_indices, 1, 1)])
    IN run(return_value(m, "main", empty_erased), "main", user)

\* step 5 of build: resolve_singleton_by_index for every singleton index
eager_singletons(descs, user) ==
    LET singleton_indices == SelectSeq([i \in 1..Len(descs) |-> i],
                                       LAMBDA i : descs[i].lifetime = "singleton")
        r == new_resolver(descs)
        m == Push([r EXCEPT !.call_states["main"] =
                        call_state("running", empty_erased, no_exception)],
                  "main", [frame("build", nullopt, "", 0)
                              EXCEPT !.todo = singleton_indices])
    IN run(return_value(m, "main", empty_erased), "main", user)

(***************************************************************************)
(* Registry: the calls.                                                    *)
(***************************************************************************)
registry_vars == <<descriptors, forwards, decorators, built>>
resolver_vars == <<r_descriptors, slot_to_indices, resolver_returned,
                   singletons, singleton_mutex, heap, deleted, alive, stacks,
                   call_states, invocations, completions, failures, handed,
                   resolves, locals, released>>

\* the resolver and its threads as one machine state, and back
Machine ==
    [descriptors |-> r_descriptors, slot_to_indices |-> slot_to_indices,
     singletons |-> singletons, singleton_mutex |-> singleton_mutex,
     heap |-> heap, deleted |-> deleted, alive |-> alive,
     stacks |-> stacks, call_states |-> call_states,
     invocations |-> invocations, completions |-> completions,
     failures |-> failures, handed |-> handed]

Install(m) ==
    \E next \in {m} :
        /\ r_descriptors' = next.descriptors
        /\ slot_to_indices' = next.slot_to_indices
        /\ singletons' = next.singletons
        /\ singleton_mutex' = next.singleton_mutex
        /\ heap' = next.heap
        /\ deleted' = next.deleted
        /\ alive' = next.alive
        /\ stacks' = next.stacks
        /\ call_states' = next.call_states
        /\ invocations' = next.invocations
        /\ completions' = next.completions
        /\ failures' = next.failures
        /\ handed' = next.handed

\* the descriptor add_singleton / add_transient / add_collection hand to
\* register_single / register_collection
registered(type, lifetime, deps, key, is_collection, impl_type) ==
    descriptor(type, lifetime, factory_fn("ctor", deps, 0), deps,
               key, is_collection, impl_type, nullopt)

register_single(type, lifetime, deps, key, impl_type) ==
    /\ calls < MaxCalls
    /\ calls' = calls + 1
    /\ IF built
       THEN /\ result' = Thrown("register_single", "di_error", nullopt)
            /\ UNCHANGED descriptors
       ELSE IF has_single(descriptors, type, key, lifetime)
       THEN /\ result' = Thrown("register_single", "duplicate_registration", type)
            /\ UNCHANGED descriptors
       ELSE /\ descriptors' = Append(descriptors,
                registered(type, lifetime, deps, key, FALSE, impl_type))
            /\ result' = Ok("register_single")
    /\ UNCHANGED <<forwards, decorators, built, family, resolver_vars>>

register_collection(type, lifetime, deps, key, impl_type) ==
    /\ calls < MaxCalls
    /\ calls' = calls + 1
    /\ IF built
       THEN /\ result' = Thrown("register_collection", "di_error", nullopt)
            /\ UNCHANGED descriptors
       ELSE /\ descriptors' = Append(descriptors,
                registered(type, lifetime, deps, key, TRUE, impl_type))
            /\ result' = Ok("register_collection")
    /\ UNCHANGED <<forwards, decorators, built, family, resolver_vars>>

\* register_forward without the test of impl_->built
register_forward_unchecked(interface_type, target_type) ==
    /\ calls < MaxCalls
    /\ calls' = calls + 1
    /\ forwards' = Append(forwards, ForwardEntry(interface_type, target_type))
    /\ result' = Ok("register_forward")
    /\ UNCHANGED <<descriptors, decorators, built, family, resolver_vars>>

register_forward(interface_type, target_type) ==
    /\ calls < MaxCalls
    /\ calls' = calls + 1
    /\ IF built
       THEN /\ result' = Thrown("register_forward", "di_error", nullopt)
            /\ UNCHANGED forwards
       ELSE /\ forwards' = Append(forwards, ForwardEntry(interface_type, target_type))
            /\ result' = Ok("register_forward")
    /\ UNCHANGED <<descriptors, decorators, built, family, resolver_vars>>

register_decorator(interface_type, target_impl, wrapper, extra_deps) ==
    /\ calls < MaxCalls
    /\ calls' = calls + 1
    /\ IF built
       THEN /\ result' = Thrown("register_decorator", "di_error", nullopt)
            /\ UNCHANGED decorators
       ELSE /\ decorators' = Append(decorators,
                DecoratorEntry(interface_type, target_impl, wrapper, extra_deps))
            /\ result' = Ok("register_decorator")
    /\ UNCHANGED <<descriptors, forwards, built, family, resolver_vars>>

\* step 3 of build without the call of validate_descriptors
validate_skipped(descs, options) == NoError

\* step 3 of build: if (options.validate_on_build) validate_descriptors(...)
validate_before_building(descs, options) ==
    IF options.validate_on_build THEN validate_descriptors(descs, options)
    ELSE NoError

\* registry::build.  The descriptors are expanded and decorated in place,
\* validated, moved into a new resolver, and the singletons resolved on the
\* calling thread.
build(options) ==
    /\ calls < MaxCalls
    /\ calls' = calls + 1
    /\ UNCHANGED <<forwards, decorators, family, resolves, locals, released>>
    /\ IF built
       THEN /\ result' = Thrown("build", "di_error", nullopt)
            /\ UNCHANGED <<descriptors, built, resolver_returned>>
            /\ Install(Machine)
       ELSE LET decorated == apply_decorators(decorators,
                                expand_forwards(forwards, descriptors))
                verdict == validate_before_building(decorated, options)
            IN IF verdict.error # "none"
               THEN /\ descriptors' = decorated
                    /\ result' = Outcome("build", verdict)
                    /\ UNCHANGED <<built, resolver_returned>>
                    /\ Install(Machine)
               ELSE /\ built' = TRUE
                    /\ descriptors' = <<>>
                    /\ IF ~options.eager_singletons
                       THEN /\ Install(new_resolver(decorated))
                            /\ resolver_returned' = TRUE
                            /\ result' = Ok("build")
                       ELSE \E user \in BehavioursOn(decorated) :
                            LET r == eager_singletons(decorated, user)
                                main == r.call_states["main"]
                            IN IF main.status = "threw"
                               THEN \* the exception destroys the resolver
                                    /\ Install(destroy(r))
                                    /\ resolver_returned' = FALSE
                                    /\ result' = Thrown("build", main.exc.class,
                                                        main.exc.type)
                               ELSE IF main.status = "diverged"
                               THEN /\ Install(r)
                                    /\ resolver_returned' = FALSE
                                    /\ result' = Thrown("build", "diverged", nullopt)
                               ELSE /\ Install(r)
                                    /\ resolver_returned' = TRUE
                                    /\ result' = Ok("build")

(***************************************************************************)
(* The registration calls and build options a behaviour draws from.        *)
(***************************************************************************)
Registration(type, lifetime, deps, key, impl_type) ==
    [type |-> type, lifetime |-> lifetime, deps |-> deps, key |-> key,
     impl_type |-> impl_type]

Families ==
    [slots |->
        [singles |-> {Registration("A", "singleton", <<>>, "", "X"),
                      Registration("A", "transient", <<>>, "", "X"),
                      Registration("A", "singleton", <<>>, "k", "X"),
                      Registration("B", "singleton", <<>>, "", "Y")},
         collections |-> {Registration("A", "singleton", <<>>, "", "X"),
                          Registration("A", "transient", <<>>, "", "Y")},
         forwards |-> {ForwardEntry("A", "B")},
         decorators |-> {DecoratorEntry("A", nullopt, "D1", <<>>)}],
     deps |->
        [singles |-> {Registration("A", "transient", <<>>, "", "X"),
                      Registration("A", "singleton",
                                   <<dependency_info("B", FALSE, FALSE)>>, "", "X"),
                      Registration("A", "singleton",
                                   <<dependency_info("B", FALSE, TRUE)>>, "k", "X"),
                      Registration("B", "singleton",
                                   <<dependency_info("A", FALSE, FALSE)>>, "", "Y"),
                      Registration("B", "transient", <<>>, "", "Y"),
                      Registration("B", "singleton", <<>>, "k", "Y"),
                      Registration("B", "transient",
                                   <<dependency_info("A", TRUE, TRUE)>>, "k", "Y")},
         collections |-> {Registration("A", "singleton",
                                       <<dependency_info("B", TRUE, TRUE)>>, "", "X"),
                          Registration("B", "transient", <<>>, "", "Y")},
         forwards |-> {},
         decorators |-> {}],
     wiring |->
        [singles |-> {Registration("B", "singleton", <<>>, "", "X"),
                      Registration("B", "transient", <<>>, "", "X"),
                      Registration("A", "singleton",
                                   <<dependency_info("B", FALSE, FALSE)>>, "", "Y")},
         collections |-> {Registration("B", "singleton", <<>>, "", "Y")},
         forwards |-> {ForwardEntry("A", "B")},
         decorators |-> {DecoratorEntry("A", nullopt, "D1", <<>>),
                         DecoratorEntry("B", "Y", "D2",
                                        <<dependency_info("A", FALSE, TRUE)>>)}],
     aliases |->
        [singles |-> {Registration("C", "singleton", <<>>, "", "Y"),
                      Registration("B", "singleton",
                                   <<dependency_info("A", FALSE, FALSE)>>, "k", "Y")},
         collections |-> {Registration("A", "singleton",
                                       <<dependency_info("B", TRUE, FALSE)>>, "", "X")},
         forwards |-> {ForwardEntry("A", "B"), ForwardEntry("B", "C")},
         decorators |-> {DecoratorEntry("A", nullopt, "D1", <<>>),
                         DecoratorEntry("A", "X", "D2", <<>>)}],
     cycles |->
        [singles |-> {Registration("C", "singleton",
                                   <<dependency_info("A", FALSE, FALSE)>>, "", "X"),
                      Registration("A", "singleton",
                                   <<dependency_info("B", FALSE, FALSE)>>, "", "X"),
                      Registration("B", "singleton",
                                   <<dependency_info("C", FALSE, FALSE)>>, "", "Y"),
                      Registration("B", "transient",
                                   <<dependency_info("B", FALSE, TRUE)>>, "", "Y"),
                      Registration("A", "transient",
                                   <<dependency_info("B", FALSE, TRUE)>>, "", "X")},
         collections |-> {},
         forwards |-> {},
         decorators |-> {}],
     extras |->
        [singles |-> {Registration("A", "singleton", <<>>, "", "X"),
                      Registration("B", "transient", <<>>, "", "Y")},
         collections |-> {},
         forwards |-> {},
         decorators |-> {DecoratorEntry("A", nullopt, "D1",
                                        <<dependency_info("B", FALSE, TRUE)>>),
                         DecoratorEntry("A", nullopt, "D2",
                                        <<dependency_info("C", FALSE, FALSE)>>),
                         DecoratorEntry("A", "X", "D1",
                                        <<dependency_info("A", FALSE, FALSE)>>)}]]

Options ==
    {DefaultOptions,
     build_options(FALSE, TRUE, TRUE, TRUE, TRUE),
     build_options(TRUE, FALSE, TRUE, TRUE, TRUE),
     build_options(TRUE, TRUE, FALSE, TRUE, TRUE),
     build_options(TRUE, TRUE, TRUE, FALSE, TRUE),
     build_options(TRUE, TRUE, TRUE, TRUE, FALSE)}

(***************************************************************************)
(* The registry's specification: a fresh registry, then any calls.         *)
(***************************************************************************)
vars == <<descriptors, forwards, decorators, built, result, calls, family,
          r_descriptors, slot_to_indices, resolver_returned,
          singletons, singleton_mutex, heap, deleted, alive, stacks, call_states,
          invocations, completions, failures, handed, resolves,
          locals, released>>

\* a build() that diverged never returns: the program makes no further call
running == result.error # "diverged"

Init ==
    /\ descriptors = <<>>
    /\ forwards = <<>>
    /\ decorators = <<>>
    /\ built = FALSE
    /\ result = Ok("registry")
    /\ calls = 0
    /\ family \in DOMAIN Families
    /\ r_descriptors = <<>>
    /\ slot_to_indices = new_resolver(<<>>).slot_to_indices
    /\ resolver_returned = FALSE
    /\ singletons = <<>>
    /\ singleton_mutex = free_mutex
    /\ heap = <<>>
    /\ deleted = <<>>
    /\ alive = FALSE
    /\ stacks = [t \in Threads |-> <<>>]
    /\ call_states = [t \in Threads |-> idle]
    /\ invocations = <<>>
    /\ completions = <<>>
    /\ failures = <<>>
    /\ handed = <<>>
    /\ resolves = 0
    /\ locals = <<>>
    /\ released = {}

AddSingle ==
    /\ running
    /\ \E x \in Families[family].singles :
        register_single(x.type, x.lifetime, x.deps, x.key, x.impl_type)

AddCollection ==
    /\ running
    /\ \E x \in Families[family].collections :
        register_collection(x.type, x.lifetime, x.deps, x.key, x.impl_type)

Forward ==
    /\ running
    /\ \E f \in Families[family].forwards :
        register_forward(f.interface_type, f.target_type)

Decorate ==
    /\ running
    /\ \E d \in Families[family].decorators :
        register_decorator(d.interface_type, d.target_impl, d.wrapper, d.extra_deps)

Build ==
    /\ running
    /\ \E options \in Options : build(options)

Next == AddSingle \/ AddCollection \/ Forward \/ Decorate \/ Build

Spec == Init /\ [][Next]_vars

(***************************************************************************)
(* The resolver's specification: a resolver that build() returned without  *)
(* eager instantiation, then calls from any thread.                        *)
(***************************************************************************)
Call(fn, type, key) == <<fn, type, key>>

\* the registries the resolver is built of, and the calls made on it
Scenarios ==
    [shared |->
        [descriptors |->
            <<registered("B", "singleton", <<>>, "", FALSE, "Y"),
              registered("A", "singleton",
                         <<dependency_info("B", FALSE, FALSE)>>, "", FALSE, "X"),
              registered("A", "singleton",
                         <<dependency_info("B", FALSE, FALSE)>>, "", TRUE, "Y")>>,
         forwards |-> <<>>,
         decorators |-> <<>>,
         calls |-> {Call("get", "A", ""), Call("get", "B", ""),
                    Call("get_all", "A", ""), Call("try_get", "B", "")}],
     fresh |->
        [descriptors |->
            <<registered("B", "transient", <<>>, "", FALSE, "Y"),
              registered("B", "transient", <<>>, "", TRUE, "Y"),
              registered("A", "singleton",
                         <<dependency_info("B", TRUE, TRUE)>>, "k", FALSE, "X"),
              registered("A", "transient",
                         <<dependency_info("B", FALSE, TRUE)>>, "", FALSE, "X")>>,
         forwards |-> <<>>,
         decorators |-> <<>>,
         calls |-> {Call("create", "B", ""), Call("create_all", "B", ""),
                    Call("get", "A", "k"), Call("create", "A", ""),
                    Call("try_create", "B", "k")}],
     wired |->
        [descriptors |->
            <<registered("B", "singleton", <<>>, "", FALSE, "X"),
              registered("B", "transient", <<>>, "", FALSE, "X")>>,
         forwards |-> <<ForwardEntry("A", "B")>>,
         decorators |-> <<DecoratorEntry("A", nullopt, "D1", <<>>)>>,
         calls |-> {Call("get", "A", ""), Call("create", "A", ""),
                    Call("get", "B", ""), Call("try_create", "A", "")}],
     plugins |->
        [descriptors |->
            <<registered("B", "singleton", <<>>, "", TRUE, "X"),
              registered("A", "singleton", <<>>, "", TRUE, "X"),
              registered("B", "singleton", <<>>, "", TRUE, "Y"),
              registered("B", "transient", <<>>, "", TRUE, "Y")>>,
         forwards |-> <<ForwardEntry("A", "B")>>,
         decorators |-> <<>>,
         calls |-> {Call("get_all", "A", ""), Call("get_all", "B", ""),
                    Call("create_all", "A", ""), Call("create_all", "B", "")}],
     unchecked |->
        [descriptors |->
            <<registered("B", "transient", <<>>, "", FALSE, "Y"),
              registered("A", "transient",
                         <<dependency_info("B", FALSE, TRUE),
                           dependency_info("C", FALSE, TRUE)>>, "", FALSE, "X"),
              registered("B", "transient",
                         <<dependency_info("A", FALSE, TRUE)>>, "k", FALSE, "X")>>,
         forwards |-> <<>>,
         decorators |-> <<>>,
         calls |-> {Call("create", "B", "k"), Call("create", "A", ""),
                    Call("try_create", "A", ""), Call("get", "C", "")}],
     dangling |->
        [descriptors |->
            <<registered("C", "singleton", <<>>, "", FALSE, "X")>>,
         forwards |-> <<ForwardEntry("A", "B"), ForwardEntry("B", "C")>>,
         decorators |-> <<>>,
         calls |-> {Call("create", "A", ""), Call("try_create", "A", ""),
                    Call("get", "C", "k"), Call("try_get", "A", ""),
                    Call("create", "C", ""),
                    Call("get_all", "A", ""), Call("create_all", "A", "")}],
     stacked |->
        [descriptors |->
            <<registered("B", "singleton", <<>>, "", FALSE, "X")>>,
         forwards |-> <<ForwardEntry("A", "B"), ForwardEntry("C", "A")>>,
         decorators |-> <<DecoratorEntry("A", nullopt, "D1", <<>>),
                          DecoratorEntry("A", nullopt, "D2", <<>>),
                          DecoratorEntry("C", nullopt, "D1", <<>>),
                          DecoratorEntry("B", nullopt, "D2", <<>>)>>,
         calls |-> {Call("get", "A", ""), Call("get", "B", ""),
                    Call("create", "C", "")}],
     shadowed |->
        [descriptors |->
            <<registered("A", "singleton", <<>>, "", FALSE, "X"),
              registered("B", "singleton", <<>>, "", FALSE, "Y"),
              registered("B", "transient", <<>>, "", FALSE, "Y")>>,
         forwards |-> <<ForwardEntry("A", "B")>>,
         decorators |-> <<DecoratorEntry("A", nullopt, "D1", <<>>)>>,
         calls |-> {Call("get", "A", ""), Call("get", "B", ""),
                    Call("create", "A", ""), Call("create", "B", "")}]]

ResolverInit ==
    /\ family \in DOMAIN Scenarios
    /\ LET s == Scenarios[family]
           decorated == apply_decorators(s.decorators,
                            expand_forwards(s.forwards, s.descriptors))
           r == new_resolver(decorated)
       IN /\ \A i \in 1..Len(s.descriptors) :
                ~s.descriptors[i].is_collection =>
                    ~has_single(SubSeq(s.descriptors, 1, i - 1),
                                s.descriptors[i].component_type,
                                s.descriptors[i].key, s.descriptors[i].lifetime)
          /\ validate_descriptors(decorated, DefaultOptions).error = "none"
          /\ descriptors = <<>>
          /\ forwards = s.forwards
          /\ decorators = s.decorators
          /\ built = TRUE
          /\ result = Ok("build")
          /\ calls = Len(s.descriptors) + Len(s.forwards) + Len(s.decorators) + 1
          /\ r_descriptors = r.descriptors
          /\ slot_to_indices = r.slot_to_indices
          /\ resolver_returned = TRUE
          /\ singletons = r.singletons
          /\ singleton_mutex = r.singleton_mutex
          /\ heap = r.heap
          /\ deleted = r.deleted
          /\ alive = r.alive
          /\ stacks = r.stacks
          /\ call_states = r.call_states
          /\ invocations = r.invocations
          /\ completions = r.completions
          /\ failures = r.failures
          /\ handed = r.handed
          /\ resolves = 0
          /\ locals = <<>>
          /\ released = {}

container_state == <<descriptors, forwards, decorators, built, result, calls,
                     family, resolver_returned>>
registry_state == <<container_state, locals, released>>

\* thread t is inside a call and the program is alive
active(t) ==
    /\ call_states[t].status = "running"
    /\ \A u \in Threads : call_states[u].status # "diverged"

\* thread t calls fn<type>(key) on the resolver
resolver_call(t, fn, type, key) ==
    /\ resolver_returned
    /\ alive
    /\ resolves < MaxResolves
    /\ \A u \in Threads : call_states[u].status # "diverged"
    /\ call_states[t].status # "running"
    /\ resolves' = resolves + 1
    /\ Install(call([reset(Machine, call_states[t].value)
                        EXCEPT !.call_states[t] =
                            call_state("running", empty_erased, no_exception)],
                    t, fn, type, key))
    /\ UNCHANGED registry_state

CallsOf(fn) == {c \in Scenarios[family].calls : c[1] = fn}

Get == \E t \in Threads, c \in CallsOf("get") : resolver_call(t, "get", c[2], c[3])
TryGet == \E t \in Threads, c \in CallsOf("try_get") : resolver_call(t, "try_get", c[2], c[3])
Create == \E t \in Threads, c \in CallsOf("create") : resolver_call(t, "create", c[2], c[3])
TryCreate ==
    \E t \in Threads, c \in CallsOf("try_create") : resolver_call(t, "try_create", c[2], c[3])
GetAll == \E t \in Threads, c \in CallsOf("get_all") : resolver_call(t, "get_all", c[2], c[3])
CreateAll ==
    \E t \in Threads, c \in CallsOf("create_all") : resolver_call(t, "create_all", c[2], c[3])

\* thread t, waiting at the lock_guard, gets the mutex
AcquireBy(t) ==
    /\ active(t)
    /\ Top(Machine, t).fn = "resolve_singleton_by_index"
    /\ Top(Machine, t).pc = "lock"
    /\ may_lock(Machine, t)
    /\ Install(acquire(Machine, t))
    /\ UNCHANGED <<registry_state, resolves>>

Acquire == \E t \in Threads : AcquireBy(t)

\* thread t, inside a factory, resolves one of the arguments still pending
ResolveArgumentBy(t) ==
    /\ active(t)
    /\ Top(Machine, t).fn = "factory"
    /\ Top(Machine, t).pc = "construct"
    /\ \E k \in 1..Len(Top(Machine, t).todo) :
            Install(resolve_argument(Machine, t, k))
    /\ UNCHANGED <<registry_state, resolves>>

ResolveArgument == \E t \in Threads : ResolveArgumentBy(t)

\* thread t, inside a factory with every argument resolved, runs the
\* constructor
ConstructBy(t) ==
    /\ active(t)
    /\ Top(Machine, t).fn = "factory"
    /\ Top(Machine, t).pc = "construct"
    /\ Top(Machine, t).todo = <<>>
    /\ \E outcome \in ConstructOutcomes : Install(construct(Machine, t, outcome))
    /\ UNCHANGED <<registry_state, resolves>>

Construct == \E t \in Threads : ConstructBy(t)

ResolverNext ==
    \/ Get \/ TryGet \/ Create \/ TryCreate \/ GetAll \/ CreateAll
    \/ Acquire \/ ResolveArgument \/ Construct

ResolverSpec == ResolverInit /\ [][ResolverNext]_vars

\* the next step of thread t inside its call
Proceed(t) == AcquireBy(t) \/ ResolveArgumentBy(t) \/ ConstructBy(t)

\* Proceed(t) is enabled: t is inside a call, at the lock_guard of a mutex
\* it may lock or inside a factory
CanProceed(t) ==
    /\ active(t)
    /\ \/ /\ Top(Machine, t).fn = "resolve_singleton_by_index"
          /\ Top(Machine, t).pc = "lock"
          /\ may_lock(Machine, t)
       \/ /\ Top(Machine, t).fn = "factory"
          /\ Top(Machine, t).pc = "construct"

\* weak fairness of Proceed(t), i.e. WF_vars(Proceed(t)) with its ENABLED
\* written as the state predicate CanProceed(t): a thread whose next step
\* stays possible eventually takes it
Scheduled(t) == ([]<>(~CanProceed(t))) \/ ([]<><<Proceed(t)>>_vars)

\* the resolver under a scheduler that lets every thread run
FairResolverSpec == ResolverSpec /\ \A t \in Threads : Scheduled(t)

(***************************************************************************)
(* A session: a registry holding a scenario's registrations is built once, *)
(* with any options, the resolver is used by the threads and finally       *)
(* destroyed.                                                              *)
(***************************************************************************)
SessionInit ==
    /\ family \in DOMAIN Scenarios
    /\ LET s == Scenarios[family]
       IN /\ \A i \in 1..Len(s.descriptors) :
                ~s.descriptors[i].is_collection =>
                    ~has_single(SubSeq(s.descriptors, 1, i - 1),
                                s.descriptors[i].component_type,
                                s.descriptors[i].key, s.descriptors[i].lifetime)
          /\ descriptors = s.descriptors
          /\ forwards = s.forwards
          /\ decorators = s.decorators
    /\ built = FALSE
    /\ result = Ok("registry")
    /\ calls = MaxCalls - 1
    /\ r_descriptors = <<>>
    /\ slot_to_indices = new_resolver(<<>>).slot_to_indices
    /\ resolver_returned = FALSE
    /\ singletons = <<>>
    /\ singleton_mutex = free_mutex
    /\ heap = <<>>
    /\ deleted = <<>>
    /\ alive = FALSE
    /\ stacks = [t \in Threads |-> <<>>]
    /\ call_states = [t \in Threads |-> idle]
    /\ invocations = <<>>
    /\ completions = <<>>
    /\ failures = <<>>
    /\ handed = <<>>
    /\ resolves = 0
    /\ locals = <<>>
    /\ released = {}

\* the last shared_ptr<resolver> is released while no call is running
Destroy ==
    /\ resolver_returned
    /\ alive
    /\ \A t \in Threads : call_states[t].status \notin {"running", "diverged"}
    /\ Install(destroy(Machine))
    /\ UNCHANGED <<registry_state, resolves>>

SessionNext == Build \/ ResolverNext \/ Destroy

SessionSpec == SessionInit /\ [][SessionNext]_vars

(***************************************************************************)
(* erased_ptr on its own: a scope with a few erased_ptr variables on       *)
(* which any of its operations is called in any order.                     *)
(***************************************************************************)
Names == {"ep1", "ep2", "ep3"}

\* a move constructor or assignment that leaves its source as it was
moved_from_kept(o) == o

\* what a move leaves in its source: o.ptr = nullptr; o.deleter = nullptr
moved_from(o) == empty_erased

\* the scope with variable x declared or set to ep
bind(ls, x, ep) ==
    [n \in DOMAIN ls \cup {x} |-> IF n = x THEN ep ELSE ls[n]]

\* the scope with variable x gone
unbind(ls, x) == [n \in DOMAIN ls \ {x} |-> ls[n]]

\* the variables and objects of the scope are held in `locals`, `released`
\* and the machine's heap, the last operation and its outcome in `result`
erased_unchanged ==
    <<descriptors, forwards, decorators, built, calls, family, resolver_returned,
      resolves>>

\* erased_ptr ep;
Default ==
    /\ result' = Ok("erased_ptr")
    /\ \E x \in Names \ DOMAIN locals : locals' = bind(locals, x, empty_erased)
    /\ Install(Machine)
    /\ UNCHANGED <<erased_unchanged, released>>

\* auto ep = make_erased<T>();
MakeErased ==
    /\ result' = Ok("make_erased")
    /\ Len(heap) < MaxObjects
    /\ \E x \in Names \ DOMAIN locals :
        locals' = bind(locals, x,
                       erased_ptr(pointer(Len(heap) + 1, "A"), "A"))
    /\ Install([Machine EXCEPT
                    !.heap = Append(@, object("X", 0, 0, <<>>, empty_erased)),
                    !.deleted = Append(@, 0)])
    /\ UNCHANGED <<erased_unchanged, released>>

\* erased_ptr ep(p, nullptr); for the address p of an object made before
NonOwning ==
    /\ result' = Ok("erased_ptr")
    /\ \E x \in Names \ DOMAIN locals : \E o \in 1..Len(heap) :
        locals' = bind(locals, x, erased_ptr(pointer(o, "A"), nullopt))
    /\ Install(Machine)
    /\ UNCHANGED <<erased_unchanged, released>>

\* erased_ptr x(std::move(y)): x takes both fields of y, y is left empty
move_constructor(x, y) ==
    /\ result' = Ok("move_constructor")
    /\ x \in Names \ DOMAIN locals
    /\ y \in DOMAIN locals
    /\ locals' = bind(bind(locals, x, erased_ptr(locals[y].ptr, locals[y].deleter)),
                      y, moved_from(locals[y]))
    /\ Install(Machine)
    /\ UNCHANGED <<erased_unchanged, released>>

\* x = std::move(y): nothing happens when x and y are the same variable,
\* else x is reset, takes both fields of y, and y is left empty
move_assignment(x, y) ==
    /\ result' = Ok("move_assignment")
    /\ x \in DOMAIN locals
    /\ y \in DOMAIN locals
    /\ IF x = y
       THEN /\ locals' = locals
            /\ Install(Machine)
       ELSE /\ locals' = bind(bind(locals, x, erased_ptr(locals[y].ptr, locals[y].deleter)),
                              y, moved_from(locals[y]))
            /\ Install(reset(Machine, locals[x]))
    /\ UNCHANGED <<erased_unchanged, released>>

MoveConstruct == \E x \in Names : \E y \in Names : move_constructor(x, y)

MoveAssign == \E x \in Names : \E y \in Names : move_assignment(x, y)

\* x.reset();
Reset ==
    /\ result' = Ok("reset")
    /\ \E x \in DOMAIN locals :
        /\ locals' = bind(locals, x, empty_erased)
        /\ Install(reset(Machine, locals[x]))
    /\ UNCHANGED <<erased_unchanged, released>>

\* void* raw = x.release(); the caller owns the object if x did
Release ==
    /\ result' = Ok("release")
    /\ \E x \in DOMAIN locals :
        /\ locals' = bind(locals, x, empty_erased)
        /\ released' = IF owned(locals[x]) = <<>> THEN released
                       ELSE released \cup {locals[x].ptr.obj}
    /\ Install(Machine)
    /\ UNCHANGED erased_unchanged

\* x goes out of scope: ~erased_ptr() { reset(); }
Destruct ==
    /\ result' = Ok("~erased_ptr")
    /\ \E x \in DOMAIN locals :
        /\ locals' = unbind(locals, x)
        /\ Install(reset(Machine, locals[x]))
    /\ UNCHANGED <<erased_unchanged, released>>

ErasedInit ==
    /\ descriptors = <<>>
    /\ forwards = <<>>
    /\ decorators = <<>>
    /\ built = FALSE
    /\ result = Ok("registry")
    /\ calls = 0
    /\ family = "slots"
    /\ r_descriptors = <<>>
    /\ slot_to_indices = new_resolver(<<>>).slot_to_indices
    /\ resolver_returned = FALSE
    /\ singletons = <<>>
    /\ singleton_mutex = free_mutex
    /\ heap = <<>>
    /\ deleted = <<>>
    /\ alive = FALSE
    /\ stacks = [t \in Threads |-> <<>>]
    /\ call_states = [t \in Threads |-> idle]
    /\ invocations = <<>>
    /\ completions = <<>>
    /\ failures = <<>>
    /\ handed = <<>>
    /\ resolves = 0
    /\ locals = <<>>
    /\ released = {}

ErasedNext ==
    \/ Default \/ MakeErased \/ NonOwning \/ MoveConstruct \/ MoveAssign
    \/ Reset \/ Release \/ Destruct

ErasedSpec == ErasedInit /\ [][ErasedNext]_vars

(***************************************************************************)
(* Properties of the resolver.                                             *)
(***************************************************************************)
Singletons == {i \in 1..Len(r_descriptors) : r_descriptors[i].lifetime = "singleton"}
Transients == {i \in 1..Len(r_descriptors) : r_descriptors[i].lifetime = "transient"}

\* thread t is inside resolve_*_by_index(i) with the factory running
resolving(t, i) ==
    \E n \in 1..Len(stacks[t]) :
        /\ stacks[t][n].fn \in {"resolve_singleton_by_index",
                                "resolve_transient_by_index"}
        /\ stacks[t][n].idx = i
        /\ stacks[t][n].pc = "factory"

\* thread t stands at the lock_guard of resolve_singleton_by_index(i)
at_lock(t, i) ==
    /\ stacks[t] # <<>>
    /\ Top(Machine, t).fn = "resolve_singleton_by_index"
    /\ Top(Machine, t).pc = "lock"
    /\ Top(Machine, t).idx = i

\* C1: however the threads' resolutions of a singleton interleave (get,
\* get_all or a dependency), its factory returns an instance at most once;
\* once it has, it was invoked exactly once apart from the invocations that
\* threw, and every resolution has handed out that one instance.
C1_SingletonFactoryOnce ==
    \A i \in Singletons :
        /\ completions[i] <= 1
        /\ i \in DOMAIN singletons <=> completions[i] = 1
        /\ completions[i] = 1 =>
            /\ invocations[i] = failures[i] + 1
            /\ handed[i] = {singletons[i].ptr}
        /\ completions[i] = 0 => handed[i] = {}

\* two threads contend for one singleton: one runs its factory under the
\* lock, the other waits at the lock to resolve the same singleton
C1_Witness ==
    \E i \in Singletons, t, u \in Threads :
        /\ t # u
        /\ resolving(t, i)
        /\ at_lock(u, i)
        /\ singleton_mutex.owner = t

\* C2: a cache entry, once present, is never replaced or removed, and every
\* later resolution of that singleton hands out the cached identity.
C2_CacheEntryStable ==
    [][\A i \in DOMAIN singletons :
            /\ i \in DOMAIN singletons'
            /\ singletons'[i] = singletons[i]
            /\ handed'[i] = {singletons[i].ptr}]_vars

\* both threads have resolved the same singleton and hold the cached pointer
C2_Witness ==
    \E i \in Singletons :
        /\ i \in DOMAIN singletons
        /\ \A t \in Threads :
            /\ call_states[t].status = "returned"
            /\ call_states[t].value.ptr = singletons[i].ptr
            /\ call_states[t].value.ptr # null

\* C3: a singleton factory that fails (with a di_error, another
\* std::exception or any other thrown value) leaves no cache entry, and the
\* next resolution of that singleton invokes the factory again.
C3_FailedSingletonNotCached ==
    [][\A i \in Singletons :
            /\ failures'[i] > failures[i] => i \notin DOMAIN singletons'
            /\ \A t \in Threads :
                (/\ failures[i] > 0
                 /\ i \notin DOMAIN singletons
                 /\ at_lock(t, i)
                 /\ stacks'[t] # stacks[t])
                => invocations'[i] = invocations[i] + 1]_vars

\* a singleton's factory threw, and a later resolution invoked it again and
\* cached what it returned
C3_Witness ==
    \E i \in Singletons :
        /\ failures[i] > 0
        /\ invocations[i] = failures[i] + 1
        /\ i \in DOMAIN singletons

\* C4: every transient resolution invokes the factory exactly once; the
\* cache holds singleton descriptors' instances only, never an object a
\* transient descriptor's factory made; and the non-null pointers that
\* resolutions of one transient descriptor returned are pairwise distinct.
C4_TransientAlwaysFresh ==
    /\ \A i \in Transients :
        /\ invocations[i] = completions[i] + failures[i]
                            + Cardinality({t \in Threads : resolving(t, i)})
        /\ i \notin DOMAIN singletons
        /\ null \notin handed[i] => Cardinality(handed[i]) = completions[i]
    /\ \A i \in DOMAIN singletons :
        singletons[i].ptr # null =>
            heap[singletons[i].ptr.obj].idx \in Singletons

\* a transient was resolved twice (once by each thread), giving two objects
C4_Witness ==
    \E i \in Transients :
        /\ completions[i] >= 2
        /\ Cardinality(handed[i]) = completions[i]
        /\ \E t, u \in Threads :
            /\ t # u
            /\ call_states[t].status = "returned"
            /\ call_states[u].status = "returned"
            /\ call_states[t].value.ptr \in handed[i]
            /\ call_states[u].value.ptr \in handed[i]
            /\ call_states[t].value.ptr # call_states[u].value.ptr

(***************************************************************************)
(* Properties of the registry and of build().                              *)
(***************************************************************************)
ValidationErrors == {"not_found", "lifetime_mismatch", "cyclic_dependency"}

\* the descriptor vector build() validates: forwards expanded, decorators applied
FinalDescriptors ==
    apply_decorators(decorators, expand_forwards(forwards, descriptors))

\* no two descriptors of the vector share a slot with is_collection = false
SingleSlotsUnique(descs) ==
    \A i, j \in 1..Len(descs) :
        (i # j /\ ~descs[i].is_collection) => slot_of(descs[i]) # slot_of(descs[j])

\* C5: in the registry, in the vector build() expanded and in the resolver's
\* slot index, every slot with is_collection = false holds at most one
\* descriptor.
C5_SingleSlotHoldsAtMostOne ==
    /\ SingleSlotsUnique(descriptors)
    /\ SingleSlotsUnique(r_descriptors)
    /\ \A sk \in DOMAIN slot_to_indices :
        ~sk[4] => Len(slot_to_indices[sk]) <= 1

\* build() with default options accepts these descriptors, and the resolver
\* it returned holds two descriptors in one non-collection slot
C5_Witness ==
    /\ resolver_returned
    /\ validate_descriptors(r_descriptors, DefaultOptions).error = "none"
    /\ \E sk \in DOMAIN slot_to_indices :
        ~sk[4] /\ Len(slot_to_indices[sk]) > 1

\* a non-collection descriptor with exactly this (type, key, lifetime) exists
Occupied(descs, x) ==
    \E i \in 1..Len(descs) :
        /\ ~descs[i].is_collection
        /\ descs[i].component_type = x.type
        /\ descs[i].key = x.key
        /\ descs[i].lifetime = x.lifetime

Edges(descs) ==
    {<<descs[i].component_type, descs[i].dependencies[j].type>> :
        <<i, j>> \in UNION {{<<i, j>> : j \in 1..Len(descs[i].dependencies)} :
                                i \in 1..Len(descs)}}

RECURSIVE ReachableFrom(_, _, _)
ReachableFrom(edges, frontier, n) ==
    IF n = 0 THEN frontier
    ELSE ReachableFrom(edges,
            frontier \cup {e[2] : e \in {e \in edges : e[1] \in frontier}}, n - 1)

HasDirectedCycle(descs) ==
    \E t \in Types :
        t \in ReachableFrom(Edges(descs),
                            {e[2] : e \in {e \in Edges(descs) : e[1] = t}},
                            Cardinality(Types))

\* C7: build() with default options rejects every configuration whose
\* dependency graph (component type -> declared dependency type, over all
\* descriptors) contains a directed cycle.
C7_CycleRejected ==
    [][(~built /\ HasDirectedCycle(FinalDescriptors) /\ build(DefaultOptions))
        => /\ result'.error \in ValidationErrors
           /\ ~resolver_returned'
      ]_vars

\* validation with default options passed descriptors on which the eager
\* resolution of a singleton then re-entered its own factory without end
C7_Witness ==
    /\ result.op = "build"
    /\ result.error = "diverged"
    /\ validate_descriptors(r_descriptors, DefaultOptions).error = "none"
    /\ \E i \in 1..Len(r_descriptors) : in_factory(Machine, "main", i)

\* descriptor i of the vector is a singleton declaring a transient,
\* non-collection dependency
Captive(descs, i) ==
    /\ descs[i].lifetime = "singleton"
    /\ \E j \in 1..Len(descs[i].dependencies) :
        /\ descs[i].dependencies[j].is_transient
        /\ ~descs[i].dependencies[j].is_collection

\* C8: build() with default options rejects every configuration in which a
\* singleton descriptor declares a transient non-collection dependency, and
\* lifetime_mismatch is only ever raised for such a descriptor.
C8_CaptiveRejected ==
    [][/\ (/\ ~built
           /\ \E i \in 1..Len(FinalDescriptors) : Captive(FinalDescriptors, i)
           /\ build(DefaultOptions))
          => /\ result'.error \in ValidationErrors
             /\ ~resolver_returned'
       /\ \A o \in Options :
            (result'.error = "lifetime_mismatch" /\ build(o))
            => /\ result'.consumer \in 1..Len(descriptors')
               /\ Captive(descriptors', result'.consumer)
               /\ descriptors' = FinalDescriptors
      ]_vars

\* C8 witness: a build was refused with lifetime_mismatch.
C8_Witness ==
    /\ result.op = "build"
    /\ result.error = "lifetime_mismatch"

\* some descriptor declares a non-collection dependency whose unkeyed slot of
\* the declared lifetime holds no descriptor
MissingSingleDependency(descs) ==
    \E i \in 1..Len(descs) : \E j \in 1..Len(descs[i].dependencies) :
        LET dep == descs[i].dependencies[j]
        IN /\ ~dep.is_collection
           /\ ~\E k \in 1..Len(descs) :
                /\ descs[k].component_type = dep.type
                /\ descs[k].key = ""
                /\ ~descs[k].is_collection
                /\ descs[k].lifetime =
                    (IF dep.is_transient THEN "transient" ELSE "singleton")

\* C9: with validate_on_build, build() fails with not_found whenever a
\* descriptor declares a non-collection dependency whose unkeyed slot of the
\* declared lifetime is empty; keyed registrations and registrations of the
\* other lifetime do not satisfy it.
C9_MissingDependencyRejected ==
    [][\A o \in Options :
        (/\ ~built
         /\ o.validate_on_build
         /\ MissingSingleDependency(FinalDescriptors)
         /\ build(o))
        => /\ result'.error = "not_found"
           /\ ~resolver_returned'
      ]_vars

\* C9 witness: build failed with not_found for a type that is registered, but
\* only under a key or under the other lifetime.
C9_Witness ==
    /\ result.op = "build"
    /\ result.error = "not_found"
    /\ \E i \in 1..Len(descriptors) :
        /\ descriptors[i].component_type = result.type
        /\ ~descriptors[i].is_collection
        /\ descriptors[i].key = "k"
    /\ \E i \in 1..Len(descriptors) :
        /\ descriptors[i].component_type = result.type
        /\ ~descriptors[i].is_collection
        /\ descriptors[i].key = ""

\* C10: a build() that raises a validation error leaves the registry's
\* descriptors, forward entries, decorator entries and built flag as they were.
C10_FailedBuildLeavesRegistry ==
    [][\A o \in Options :
        (result'.error \in ValidationErrors /\ build(o))
        => UNCHANGED <<descriptors, forwards, decorators, built>>
      ]_vars

\* after a build() that failed validation the registry, still unbuilt, holds
\* a descriptor that forward expansion made
C10_Witness ==
    /\ ~built
    /\ result.op = "build"
    /\ result.error \in ValidationErrors
    /\ \E i \in 1..Len(descriptors) : descriptors[i].forward_target # nullopt

\* no factory has run and nothing has been constructed on this registry
NoUserCodeRan ==
    /\ heap = <<>>
    /\ \A i \in 1..Len(invocations) : invocations[i] = 0
    /\ \A t \in Threads : call_states[t] = idle

\* C11: a configuration that validation rejects is rejected before any user
\* code runs: build() raises the validator's error, no factory or decorator
\* constructor has been invoked and no resolver is returned; and a build()
\* that fails before setting the built flag has run no user code.
C11_RejectedBeforeUserCode ==
    [][\A o \in Options :
        /\ (/\ ~built
            /\ o.validate_on_build
            /\ validate_descriptors(FinalDescriptors, o).error # "none"
            /\ build(o))
           => /\ result'.error = validate_descriptors(FinalDescriptors, o).error
              /\ ~built'
              /\ ~resolver_returned'
              /\ NoUserCodeRan'
        /\ (~built /\ ~built' /\ build(o))
           => /\ result'.error \in ValidationErrors
              /\ ~resolver_returned'
              /\ NoUserCodeRan'
      ]_vars

\* a build() was refused by validation although a singleton with a
\* constructor to run was registered; nothing was constructed
C11_Witness ==
    /\ result.op = "build"
    /\ result.error \in ValidationErrors
    /\ ~built
    /\ ~resolver_returned
    /\ NoUserCodeRan
    /\ \E i \in 1..Len(descriptors) :
        /\ descriptors[i].lifetime = "singleton"
        /\ descriptors[i].factory.kind = "ctor"

\* C12: a build() that directly follows another build() - whatever that one
\* did - fails with di_error and returns no resolver.
C12_BuildOneShot ==
    [][\A o \in Options :
        (result.op = "build" /\ build(o))
        => /\ result'.error = "di_error"
           /\ resolver_returned' = resolver_returned
           /\ r_descriptors' = r_descriptors
      ]_vars

\* a resolver was returned by a second build(): its one registered
\* decorator was applied by the failed first build() and again by the second
C12_Witness ==
    /\ result.op = "build"
    /\ result.error = "none"
    /\ resolver_returned
    /\ Len(decorators) = 1
    /\ \E i \in 1..Len(r_descriptors) : Len(r_descriptors[i].factory.wrappers) = 2

\* C13: once build() has returned a resolver, every registration call
\* (register_single, register_collection, register_forward,
\* register_decorator) fails with di_error and leaves the descriptors, the
\* forward entries and the decorator entries as they were.
C13_MutatorsFailAfterBuild ==
    [][resolver_returned =>
        /\ \A x \in Families[family].singles :
            register_single(x.type, x.lifetime, x.deps, x.key, x.impl_type)
            => /\ result'.error = "di_error"
               /\ UNCHANGED <<descriptors, forwards, decorators, built>>
        /\ \A x \in Families[family].collections :
            register_collection(x.type, x.lifetime, x.deps, x.key, x.impl_type)
            => /\ result'.error = "di_error"
               /\ UNCHANGED <<descriptors, forwards, decorators, built>>
        /\ \A f \in Families[family].forwards :
            register_forward(f.interface_type, f.target_type)
            => /\ result'.error = "di_error"
               /\ UNCHANGED <<descriptors, forwards, decorators, built>>
        /\ \A d \in Families[family].decorators :
            register_decorator(d.interface_type, d.target_impl, d.wrapper, d.extra_deps)
            => /\ result'.error = "di_error"
               /\ UNCHANGED <<descriptors, forwards, decorators, built>>
      ]_vars

\* a forward was refused on a registry whose build() had returned a resolver
C13_Witness ==
    /\ resolver_returned
    /\ result.op = "register_forward"
    /\ result.error = "di_error"

\* the object a cached instance of descriptor i stands for once the
\* decorators this descriptor's factory wrapped around it are taken off
RECURSIVE Undecorated(_, _)
Undecorated(p, i) ==
    IF p = null THEN p
    ELSE IF heap[p.obj].idx = i /\ heap[p.obj].layer > 0
    THEN Undecorated(heap[p.obj].inner.ptr, i)
    ELSE p

\* the forward kind expansion gives a descriptor of this lifetime
ForwardKind(lt) == IF lt = "singleton" THEN "forward_singleton" ELSE "forward_transient"

\* C14: in a resolver that build() returned, for every forward(I, T) and
\* each of the four slot shapes, I's unkeyed slot holds as many descriptors
\* as T's, the k-th of them forwarding to the k-th of T's; a cached instance
\* of I is, under I's decorators, the instance cached for T, whose factory
\* completed once; and T's transient factory has run for every completed
\* resolution of I.
C14_ForwardYieldsTarget ==
    resolver_returned =>
        \A n \in 1..Len(forwards) : \A lt \in lifetime_kind : \A coll \in BOOLEAN :
            LET I == find_slot(Machine, forwards[n].interface_type, "", lt, coll)
                T == find_slot(Machine, forwards[n].target_type, "", lt, coll)
            IN /\ Len(I) = Len(T)
               /\ \A k \in 1..Len(I) :
                    /\ k <= Len(T)
                    /\ r_descriptors[I[k]].factory.kind = ForwardKind(lt)
                    /\ r_descriptors[I[k]].factory.target_idx = T[k]
                    /\ (lt = "singleton" /\ I[k] \in DOMAIN singletons) =>
                        /\ T[k] \in DOMAIN singletons
                        /\ completions[T[k]] = 1
                        /\ Undecorated(singletons[I[k]].ptr, I[k]).obj
                            = singletons[T[k]].ptr.obj
                    /\ lt = "transient" => completions[T[k]] >= completions[I[k]]

\* build() with default options returned a resolver in which get<I>()
\* resolves I's own registration, whose cached instance is another object
\* than the one cached for the forward's target T
C14_Witness ==
    /\ resolver_returned
    /\ validate_descriptors(r_descriptors, DefaultOptions).error = "none"
    /\ \E n \in 1..Len(forwards) :
        LET I == find_slot(Machine, forwards[n].interface_type, "", "singleton", FALSE)
            T == find_slot(Machine, forwards[n].target_type, "", "singleton", FALSE)
        IN /\ I # <<>> /\ T # <<>>
           /\ r_descriptors[I[1]].factory.kind = "ctor"
           /\ I[1] \in DOMAIN singletons /\ T[1] \in DOMAIN singletons
           /\ singletons[I[1]].ptr.obj # singletons[T[1]].ptr.obj

\* forward expansion finds no unkeyed descriptor of the entry's target
Unmatched(fwd, descs) ==
    ~\E i \in 1..Len(descs) :
        descs[i].component_type = fwd.target_type /\ descs[i].key = ""

\* C15: when some forward entry matches no unkeyed descriptor of its target
\* during forward expansion, build() with validate_on_build fails with
\* not_found naming the target of such an entry, and returns no resolver.
C15_UnmatchedForwardRejected ==
    [][\A o \in Options :
        (/\ ~built
         /\ o.validate_on_build
         /\ \E n \in 1..Len(forwards) : Unmatched(forwards[n], descriptors)
         /\ build(o))
        => /\ result'.error = "not_found"
           /\ \E n \in 1..Len(forwards) :
                /\ Unmatched(forwards[n], descriptors)
                /\ result'.type = forwards[n].target_type
           /\ ~resolver_returned'
      ]_vars

\* build() with default options returned a resolver made of one registered
\* descriptor, the alias of a forward to it and the placeholder of a second
\* forward, whose target exists only as that alias
C15_Witness ==
    /\ resolver_returned
    /\ validate_descriptors(r_descriptors, DefaultOptions).error = "none"
    /\ Len(forwards) = 2
    /\ Len(r_descriptors) = 3
    /\ r_descriptors[1].factory.kind = "ctor"
    /\ r_descriptors[2].factory.kind = "forward_singleton"
    /\ r_descriptors[3].factory.kind = "placeholder"
    /\ r_descriptors[3].forward_target = r_descriptors[2].component_type

\* the objects the callers hold: what the values their last calls returned
\* own, and what those objects own in turn
RECURSIVE OwnedThrough(_)
OwnedThrough(objs) ==
    IF objs = <<>> THEN {}
    ELSE {Head(objs)}
         \cup OwnedThrough(owned(heap[Head(objs)].inner)
                           \o owned_by_all(heap[Head(objs)].args) \o Tail(objs))

HeldByCallers ==
    UNION {OwnedThrough(owned(call_states[t].value)) : t \in Threads}

\* C16: no object is ever destroyed twice; while the resolver exists no
\* cached instance has been destroyed and an undecorated alias entry has no
\* deleter; and once the resolver is destroyed every object constructed
\* through it has been destroyed exactly once, except those a caller still
\* holds through a unique_ptr.
C16_DestroyedExactlyOnce ==
    /\ \A o \in 1..Len(heap) : deleted[o] <= 1
    /\ alive =>
        \A i \in DOMAIN singletons :
            /\ singletons[i].ptr # null => deleted[singletons[i].ptr.obj] = 0
            /\ (/\ r_descriptors[i].factory.kind = "forward_singleton"
                /\ r_descriptors[i].factory.wrappers = <<>>)
               => singletons[i].deleter = nullopt
    /\ (built /\ ~alive) =>
        \A o \in 1..Len(heap) : deleted[o] = 1 \/ o \in HeldByCallers

\* a resolver was destroyed after a forward alias (under a decorator) and
\* its target had both been resolved: the target's instance and the
\* decorator around it have each been destroyed once
C16_Witness ==
    /\ resolver_returned
    /\ ~alive
    /\ \E o, d \in 1..Len(heap) :
        /\ heap[d].layer > 0
        /\ r_descriptors[heap[d].idx].factory.kind = "forward_singleton"
        /\ heap[d].inner.ptr.obj = o
        /\ heap[d].inner.deleter = nullopt
        /\ deleted[o] = 1
        /\ deleted[d] = 1

\* the decorator classes met from heap object o inwards, as long as the
\* objects belong to descriptor i
RECURSIVE Layers(_, _)
Layers(o, i) ==
    IF o = 0 THEN <<>>
    ELSE IF heap[o].idx # i \/ heap[o].layer = 0 THEN <<>>
    ELSE <<heap[o].class>> \o Layers(heap[o].inner.ptr.obj, i)

\* the wrappers of the registered decorators that apply to desc, the one
\* registered last first
RECURSIVE Nesting(_, _)
Nesting(decs, desc) ==
    IF decs = <<>> THEN <<>>
    ELSE Nesting(Tail(decs), desc)
         \o (IF decorator_matches(Head(decs), desc) THEN <<Head(decs).wrapper>>
             ELSE <<>>)

\* the objects resolutions of descriptor i yield: the cached instance, and
\* every finished outermost object of the descriptor
Yielded(i) ==
    {o \in 1..Len(heap) :
        /\ heap[o].idx = i
        /\ heap[o].layer = Len(r_descriptors[i].factory.wrappers)}
    \cup {singletons[j].ptr.obj : j \in {j \in DOMAIN singletons :
                                          j = i /\ singletons[j].ptr # null}}

\* C17: if decorators D1, ..., Dn are registered in that order and all apply
\* to a descriptor, every instance a resolution of that descriptor yields is
\* Dn(...(D1(base))): each applicable decorator exactly once, a later
\* registered one around an earlier registered one
C17_DecoratorsNestInOrder ==
    \A i \in 1..Len(r_descriptors) : \A o \in Yielded(i) :
        Layers(o, i) = Nesting(decorators, r_descriptors[i])

\* two different decorators apply to a descriptor whose singleton has been
\* constructed with both around it
C17_Witness ==
    \E i \in DOMAIN singletons :
        /\ singletons[i].ptr # null
        /\ Len(Layers(singletons[i].ptr.obj, i)) = 2
        /\ Layers(singletons[i].ptr.obj, i)[1] # Layers(singletons[i].ptr.obj, i)[2]

\* dec is registered for desc's interface and, if it names a target
\* implementation, desc was registered with that implementation
Targets(dec, desc) ==
    /\ dec.interface_type = desc.component_type
    /\ dec.target_impl # nullopt => desc.impl_type = dec.target_impl

\* the layers and the extra dependencies of the decorators that target desc,
\* in registration order
RECURSIVE LayersFor(_, _)
LayersFor(decs, desc) ==
    IF decs = <<>> THEN <<>>
    ELSE (IF Targets(Head(decs), desc)
          THEN <<[decorator |-> Head(decs).wrapper, extra |-> Head(decs).extra_deps]>>
          ELSE <<>>) \o LayersFor(Tail(decs), desc)

RECURSIVE ExtrasFor(_, _)
ExtrasFor(decs, desc) ==
    IF decs = <<>> THEN <<>>
    ELSE (IF Targets(Head(decs), desc) THEN Head(decs).extra_deps ELSE <<>>)
         \o ExtrasFor(Tail(decs), desc)

\* the descriptors a build() leaves behind: in the resolver, or in the
\* registry when validation threw
Decorated == IF built THEN r_descriptors ELSE descriptors

\* C18: a decorator registered with a target implementation type wraps
\* exactly the descriptors of its interface whose impl_type equals the target;
\* a descriptor of another interface, or of the same interface with another
\* or no impl_type, keeps its factory and its dependency list: build() adds
\* to each descriptor the layers and extra dependencies of the decorators
\* that target it and nothing else.
C18_TargetedDecoratorWrapsItsImpl ==
    [][\A o \in Options :
        (~built /\ build(o))
        => LET before == expand_forwards(forwards, descriptors)
           IN /\ Len(Decorated') = Len(before)
              /\ \A i \in 1..Len(before) :
                    Decorated'[i] =
                        [before[i] EXCEPT
                            !.factory.wrappers = @ \o LayersFor(decorators, before[i]),
                            !.dependencies = @ \o ExtrasFor(decorators, before[i])]
      ]_vars

\* build() left two descriptors of one interface, registered with different
\* implementations: the targeted decorator wraps the one and not the other
C18_Witness ==
    /\ result.op = "build"
    /\ \E n \in 1..Len(decorators) : \E i, j \in 1..Len(Decorated) :
        /\ decorators[n].target_impl # nullopt
        /\ Decorated[i].component_type = decorators[n].interface_type
        /\ Decorated[j].component_type = decorators[n].interface_type
        /\ Decorated[i].impl_type = decorators[n].target_impl
        /\ Decorated[j].impl_type # decorators[n].target_impl
        /\ \E k \in 1..Len(Decorated[i].factory.wrappers) :
                Decorated[i].factory.wrappers[k].decorator = decorators[n].wrapper
        /\ Decorated[j].factory.wrappers = <<>>

\* the resolver's descriptors of the collection slot (type, key, lt), in the
\* order of the descriptor vector
DescriptorsIn(type, key, lt) ==
    SelectSeq([i \in 1..Len(r_descriptors) |-> i],
              LAMBDA i : slot_of(r_descriptors[i]) = slot_key(type, key, lt, TRUE))

\* those of them that an add_collection call registered
RegisteredIn(type, key, lt) ==
    SelectSeq(DescriptorsIn(type, key, lt),
              LAMBDA i : r_descriptors[i].forward_target = nullopt)

\* in this step thread t's call c, a get_all or create_all, returns
Returns(t, c) ==
    /\ call_states'[t].status = "returned"
    /\ \/ /\ call_states[t].status = "running"
          /\ stacks[t] # <<>>
          /\ stacks[t][1].fn = c[1]
          /\ stacks[t][1].type = c[2]
          /\ stacks[t][1].key = c[3]
       \/ /\ call_states[t].status # "running"
          /\ resolver_call(t, c[1], c[2], c[3])

\* the sequence returned to t has one element per index, in that order: for
\* get_all the cached instance of the descriptor, for create_all an object
\* that this descriptor's resolution handed out, different from the others
Enumerates(t, c, indices) ==
    LET items == call_states'[t].value.items
    IN /\ Len(items) = Len(indices)
       /\ \A k \in 1..Len(indices) :
            IF c[1] = "get_all"
            THEN /\ indices[k] \in DOMAIN singletons'
                 /\ items[k] # null
                 /\ items[k] = static_cast(singletons'[indices[k]].ptr, c[2])
            ELSE /\ items[k] \in {static_cast(p, c[2]) : p \in handed'[indices[k]]}
                 /\ \A j \in 1..Len(indices) : j # k => items[j].obj # items[k].obj

CollectionCalls ==
    {c \in Scenarios[family].calls : c[1] \in collection_calls}

LifetimeOf(fn) == IF fn = "get_all" THEN "singleton" ELSE "transient"

\* C19 as stated: every get_all/create_all enumeration returns exactly one
\* element per add_collection registration of the slot, in the order of the
\* add_collection calls, the singleton variant the cached instances.
C19_OnePerAddCollection ==
    [][\A t \in Threads : \A c \in CollectionCalls :
        Returns(t, c) => Enumerates(t, c, RegisteredIn(c[2], c[3], LifetimeOf(c[1])))
      ]_vars

\* C19, amended: every get_all/create_all enumeration returns exactly one
\* element per descriptor of the slot, in the order of the descriptor vector:
\* the add_collection registrations of the slot in the order of their calls
\* and the descriptors forward expansion appended to the slot; the singleton
\* variant returns the cached instances on every call.
C19_OnePerSlotDescriptor ==
    [][\A t \in Threads : \A c \in CollectionCalls :
        Returns(t, c) => Enumerates(t, c, DescriptorsIn(c[2], c[3], LifetimeOf(c[1])))
      ]_vars

\* a get_all has returned three instances: that of the slot's own
\* add_collection registration first, then those of the two descriptors a
\* forward added, in the order of the target's registrations
C19_Witness ==
    \E t \in Threads :
        /\ call_states[t].status = "returned"
        /\ Len(call_states[t].value.items) = 3
        /\ Len(RegisteredIn("A", "", "singleton")) = 1
        /\ \A k \in 1..3 :
            call_states[t].value.items[k].obj
                = singletons[DescriptorsIn("A", "", "singleton")[k]].ptr.obj
        /\ heap[call_states[t].value.items[1].obj].idx
                = RegisteredIn("A", "", "singleton")[1]

\* every singleton descriptor of the resolver has a cache entry and its
\* factory has been invoked once, and has returned
AllSingletonsInstantiated ==
    \A i \in 1..Len(r_descriptors) :
        r_descriptors[i].lifetime = "singleton"
        => /\ i \in DOMAIN singletons
           /\ invocations[i] = 1
           /\ completions[i] = 1

\* C20: when build() with eager_singletons = true returns a resolver, every
\* singleton descriptor (single, collection, keyed, forward-expanded,
\* decorated) has a cache entry and its factory has been invoked exactly
\* once; from then on no call on the living resolver invokes a singleton
\* factory again; with eager_singletons = false build() invokes no factory.
C20_EagerInstantiatesEachOnce ==
    [][/\ \A o \in Options :
            (~built /\ build(o))
            => IF o.eager_singletons
               THEN resolver_returned' => AllSingletonsInstantiated'
               ELSE NoUserCodeRan'
       /\ (resolver_returned /\ AllSingletonsInstantiated /\ alive')
            => AllSingletonsInstantiated'
      ]_vars

\* build() instantiated a singleton, the alias a forward made of it and the
\* decorator around the alias before any call was made on the resolver
C20_Witness ==
    /\ resolver_returned
    /\ alive
    /\ resolves = 0
    /\ AllSingletonsInstantiated
    /\ \E i, j \in DOMAIN singletons :
        /\ r_descriptors[i].factory.kind = "forward_singleton"
        /\ r_descriptors[i].factory.wrappers # <<>>
        /\ r_descriptors[i].factory.target_idx = j
        /\ singletons[i].ptr # null
        /\ heap[singletons[i].ptr.obj].inner.ptr.obj = singletons[j].ptr.obj

\* the descriptors in the slots that descriptor j declares a dependency on
UsedBy(descs, j) ==
    {i \in 1..Len(descs) :
        \E k \in 1..Len(descs[j].dependencies) :
            needed_slot(descs[j].dependencies[k]) = slot_of(descs[i])}

\* the descriptors that the resolution of a singleton can reach
RECURSIVE Needed(_, _, _)
Needed(descs, frontier, n) ==
    IF n = 0 THEN frontier
    ELSE Needed(descs, frontier \cup UNION {UsedBy(descs, j) : j \in frontier}, n - 1)

EagerlyNeeded(descs) ==
    Needed(descs, {i \in 1..Len(descs) : descs[i].lifetime = "singleton"}, Len(descs))

RECURSIVE SumOf(_, _)
SumOf(counts, n) == IF n = 0 THEN 0 ELSE counts[n] + SumOf(counts, n - 1)

\* the exception that left thread t's call carries tags of descriptors whose
\* resolution failed, one per failed resolution (the frame that wraps a
\* std::exception adds none)
Annotated(t) ==
    LET e == call_states[t].exc
        n == SumOf(failures, Len(failures))
    IN e.class \in di_errors
       => /\ Len(e.context) \in {n - 1, n}
          /\ \A k \in 1..Len(e.context) :
                \E i \in 1..Len(r_descriptors) :
                    /\ failures[i] > 0
                    /\ e.context[k] = context_tag(r_descriptors[i])

\* C21: with eager_singletons = true, if a singleton factory fails during
\* the eager phase, build() propagates that failure, annotated like any
\* resolution failure, and returns no resolver; the eager phase invokes a
\* transient factory only as a dependency of a singleton being built.
C21_EagerFailurePropagates ==
    [][\A o \in Options :
        (~built /\ o.eager_singletons /\ build(o) /\ built')
        => /\ (\E i \in 1..Len(failures') : failures'[i] > 0)
              => /\ ~resolver_returned'
                 /\ call_states'["main"].status = "threw"
                 /\ result'.op = "build"
                 /\ result'.error = call_states'["main"].exc.class
                 /\ result'.error # "none"
                 /\ Annotated("main")'
           /\ \A i \in 1..Len(r_descriptors') :
                (r_descriptors'[i].lifetime = "transient" /\ invocations'[i] > 0)
                => i \in EagerlyNeeded(r_descriptors')
      ]_vars

\* an eager build() threw what a singleton's constructor threw after the
\* transient it depends on had been created, while a transient that no
\* singleton depends on was never invoked
C21_Witness ==
    /\ built
    /\ ~resolver_returned
    /\ result.op = "build"
    /\ call_states["main"].status = "threw"
    /\ \E i, j, k \in 1..Len(r_descriptors) :
        /\ r_descriptors[i].lifetime = "singleton"
        /\ failures[i] = 1
        /\ r_descriptors[j].lifetime = "transient"
        /\ j \in UsedBy(r_descriptors, i)
        /\ completions[j] = 1
        /\ r_descriptors[k].lifetime = "transient"
        /\ invocations[k] = 0

\* thread t waits at the lock_guard for a mutex another thread holds
Blocked(t) ==
    /\ call_states[t].status = "running"
    /\ Top(Machine, t).fn = "resolve_singleton_by_index"
    /\ Top(Machine, t).pc = "lock"
    /\ ~may_lock(Machine, t)

\* a thread is inside a call, and no thread inside a call can take a step
AllBlocked ==
    /\ \E t \in Threads : call_states[t].status = "running"
    /\ \A t \in Threads : call_states[t].status = "running" => ~CanProceed(t)

\* C22: nested resolution of distinct singletons does not deadlock: in an
\* acyclic configuration no reachable state has every thread inside a call
\* blocked, a thread cannot proceed only while it waits at the lock for a
\* mutex another thread holds, and under fair scheduling every resolution
\* call ends.
C22_NestedResolutionTerminates ==
    /\ [](~AllBlocked)
    /\ [](\A t \in Threads :
            call_states[t].status = "running" => (CanProceed(t) \/ Blocked(t)))
    /\ \A t \in Threads :
            (call_states[t].status = "running")
                ~> (call_states[t].status \in {"returned", "threw"})

\* a thread is inside the factory of a singleton that its own singleton's
\* factory resolves, holding the mutex twice, while the other thread waits at
\* the lock
C22_Witness ==
    \E t, u \in Threads :
        /\ singleton_mutex = [owner |-> t, count |-> 2]
        /\ Len(SelectSeq(stacks[t], LAMBDA f : f.fn = "resolve_singleton_by_index")) = 2
        /\ Blocked(u)

\* C23: after build no resolver operation mutates the descriptors or the
\* slot index: every step of a get/create/get_all/create_all/try_* call,
\* successful or failing, leaves both unchanged, and the only change to the
\* resolver's cache is the insertion of an entry for a singleton descriptor
\* whose factory has just returned.
C23_ResolverOpsOnlyInsertCache ==
    [][/\ r_descriptors' = r_descriptors
       /\ slot_to_indices' = slot_to_indices
       /\ \A i \in DOMAIN singletons :
            i \in DOMAIN singletons' /\ singletons'[i] = singletons[i]
       /\ \A i \in DOMAIN singletons' \ DOMAIN singletons :
            /\ r_descriptors[i].lifetime = "singleton"
            /\ completions'[i] = completions[i] + 1
            /\ failures'[i] = failures[i]
       /\ \A i \in 1..Len(r_descriptors) :
            completions'[i] > completions[i] /\ r_descriptors[i].lifetime = "singleton"
            => i \in DOMAIN singletons'
      ]_vars

\* on one resolver a call has returned an instance, another call has
\* thrown, a factory has failed and the cache holds an entry
C23_Witness ==
    /\ singletons # <<>>
    /\ \E t, u \in Threads :
        /\ call_states[t].status = "returned"
        /\ call_states[t].value.ptr # null
        /\ call_states[u].status = "threw"
    /\ \E i \in 1..Len(failures) : failures[i] > 0

resolver_frames == {"resolve_singleton_by_index", "resolve_transient_by_index"}

\* the tags of the resolver frames on a call stack, from frame k down to
\* the caller: innermost frame first
RECURSIVE TagsFrom(_, _)
TagsFrom(stack, k) ==
    IF k = 0 THEN <<>>
    ELSE (IF stack[k].fn \in resolver_frames
          THEN <<context_tag(r_descriptors[stack[k].idx])>> ELSE <<>>)
         \o TagsFrom(stack, k - 1)

EnclosingTags(t) == TagsFrom(stacks[t], Len(stacks[t]))

FactoriesInProgress(t) ==
    Cardinality({k \in 1..Len(stacks[t]) : stacks[t][k].fn = "factory"})

Constructs(t, outcome) ==
    /\ active(t)
    /\ Top(Machine, t).fn = "factory"
    /\ Top(Machine, t).pc = "construct"
    /\ Top(Machine, t).todo = <<>>
    /\ Install(construct(Machine, t, outcome))

\* C25: a std::exception that is no container error, thrown by a factory at
\* any depth, is wrapped into resolution_error once, by the innermost
\* resolver frame (the error names that frame's component), and every outer
\* frame only appends its tag to that error; a container-kind error thrown
\* in a factory reaches the caller with its kind unchanged.
C25_WrappedOnceByInnermost ==
    [][\A t \in Threads, outcome \in {"di_error", "std_exception"} :
        Constructs(t, outcome)
        => LET e == call_states'[t].exc
               tags == EnclosingTags(t)
           IN /\ call_states'[t].status = "threw"
              /\ outcome = "di_error" => e.class = "di_error"
              /\ outcome = "std_exception"
                 => /\ e.class = "resolution_error"
                    /\ e.type = tags[1][1]
                    /\ e.context = SubSeq(tags, 2, Len(tags))
      ]_vars

\* a call has thrown a resolution_error that names an inner component and
\* carries the tag of an outer one, and another call has thrown a di_error
C25_Witness ==
    \E t, u \in Threads :
        /\ call_states[t].status = "threw"
        /\ call_states[t].exc.class = "resolution_error"
        /\ Len(call_states[t].exc.context) >= 1
        /\ call_states[t].exc.context[1][1] # call_states[t].exc.type
        /\ call_states[u].status = "threw"
        /\ call_states[u].exc.class = "di_error"
        /\ Len(call_states[u].exc.context) >= 1

try_calls == {"try_get", "try_create"}
strict_of(fn) ==
    IF fn = "try_get" THEN "get" ELSE IF fn = "try_create" THEN "create" ELSE fn

\* the machine with thread t's call, if one is in progress, relabelled as
\* the strict accessor
AsStrict(m, t) ==
    IF m.stacks[t] = <<>> THEN m ELSE [m EXCEPT !.stacks[t][1].fn = strict_of(@)]

\* the descriptors of the slot a call addresses
SlotOf(c) ==
    find_slot(Machine, c[2], c[3],
              IF c[1] \in singleton_calls THEN "singleton" ELSE "transient",
              c[1] \in collection_calls)

\* the machine as thread t's call finds it: the value of the previous call
\* is released
Entering(t) ==
    [reset(Machine, call_states[t].value)
        EXCEPT !.call_states[t] = call_state("running", empty_erased, no_exception)]

\* thread t makes call c
Calls(t, c) ==
    /\ call_states[t].status # "running"
    /\ resolver_call(t, c[1], c[2], c[3])

\* a call on a slot that holds no descriptor: not_found from get and
\* create, null from try_get and try_create, an empty sequence from get_all
\* and create_all; no factory is invoked, no object made, no entry cached
MissingSlot(t, c) ==
    (Calls(t, c) /\ SlotOf(c) = <<>>)
    => /\ stacks'[t] = <<>>
       /\ c[1] \in {"get", "create"}
          => /\ call_states'[t].status = "threw"
             /\ call_states'[t].exc = exception("not_found", c[2])
       /\ c[1] \notin {"get", "create"}
          => /\ call_states'[t].status = "returned"
             /\ call_states'[t].value.ptr = null
             /\ call_states'[t].value.items = <<>>
       /\ invocations' = invocations
       /\ singletons' = singletons
       /\ heap' = heap

\* the steps thread t can take next while its call is a try_ accessor on a
\* slot that holds a descriptor, each as the pair of the machine the step
\* leaves and the machine the same step leaves when the call is the strict
\* accessor
TrySteps(t) ==
    LET m == Machine
        s == AsStrict(Machine, t)
    IN IF active(t)
       THEN IF stacks[t][1].fn \notin try_calls THEN {}
            ELSE IF Top(m, t).fn = "resolve_singleton_by_index"
            THEN IF Top(m, t).pc = "lock" /\ may_lock(m, t)
                 THEN {<<acquire(m, t), acquire(s, t)>>} ELSE {}
            ELSE IF Top(m, t).fn = "factory" /\ Top(m, t).pc = "construct"
            THEN IF Top(m, t).todo = <<>>
                 THEN {<<construct(m, t, o), construct(s, t, o)>> : o \in ConstructOutcomes}
                 ELSE {<<resolve_argument(m, t, k), resolve_argument(s, t, k)>> :
                            k \in 1..Len(Top(m, t).todo)}
            ELSE {}
       ELSE IF /\ resolver_returned
               /\ alive
               /\ resolves < MaxResolves
               /\ \A u \in Threads : call_states[u].status \notin {"running", "diverged"}
       THEN {<<call(Entering(t), t, c[1], c[2], c[3]),
               call(Entering(t), t, strict_of(c[1]), c[2], c[3])>> :
                c \in {x \in Scenarios[family].calls :
                            x[1] \in try_calls /\ SlotOf(x) # <<>>}}
       ELSE {}

\* the try_ accessor's step leaves what the strict accessor's step leaves
Alike(t, tried, strict) == AsStrict(tried, t) = strict

\* ... or the strict accessor ends with its own not_found where the try_
\* accessor returns null, the factory having yielded an empty pointer
AlikeButNull(t, tried, strict) ==
    \/ Alike(t, tried, strict)
    \/ /\ strict.call_states[t].status = "threw"
       /\ strict.call_states[t].exc.class = "not_found"
       /\ strict.call_states[t].exc.context = <<>>
       /\ tried.call_states[t] = call_state("returned", empty_erased, no_exception)
       /\ tried = [strict EXCEPT !.call_states[t] = tried.call_states[t]]
       /\ \E i \in 1..Len(r_descriptors) :
            /\ r_descriptors[i].factory.kind = "placeholder"
            /\ tried.invocations[i] > invocations[i]

\* C26 as stated: on a slot that holds no descriptor, get and create fail
\* with not_found, try_get and try_create return null, get_all and
\* create_all return an empty sequence, and none invokes a factory or adds
\* a cache entry; on a slot that holds a descriptor a try_ accessor behaves
\* exactly like its strict counterpart, factory failures included.
C26_TryLikeStrict ==
    /\ [][\A t \in Threads : \A c \in Scenarios[family].calls : MissingSlot(t, c)]_vars
    /\ [](\A t \in Threads : \A p \in TrySteps(t) : Alike(t, p[1], p[2]))

\* C26, amended: on a slot that holds no descriptor, get and create fail
\* with not_found, try_get and try_create return null, get_all and
\* create_all return an empty sequence, and none invokes a factory or adds
\* a cache entry; on a slot that holds a descriptor every step of a try_
\* accessor leaves what the same step of its strict counterpart leaves,
\* factory failures included, except where the slot's descriptor is the
\* placeholder of a forward without target: its factory is invoked and
\* yields an empty pointer, create fails with not_found and try_create
\* returns null.
C26_TryLikeStrictButPlaceholder ==
    /\ [][\A t \in Threads : \A c \in Scenarios[family].calls : MissingSlot(t, c)]_vars
    /\ [](\A t \in Threads : \A p \in TrySteps(t) : AlikeButNull(t, p[1], p[2]))

\* one thread's call on an empty slot has thrown not_found while the other
\* thread's try_create on the slot of a placeholder, whose factory ran, has
\* returned null
C26_Witness ==
    /\ \E i \in 1..Len(r_descriptors) :
        /\ r_descriptors[i].factory.kind = "placeholder"
        /\ invocations[i] > 0
        /\ completions[i] > 0
    /\ \E t, u \in Threads :
        /\ call_states[t].status = "threw"
        /\ call_states[t].exc = exception("not_found", "C")
        /\ call_states[u].status = "returned"
        /\ call_states[u].value = empty_erased
    /\ singletons = <<>>

\* the unkeyed collection slot a collection dependency names holds no
\* descriptor of the vector
EmptyCollection(descs, dep) ==
    /\ dep.is_collection
    /\ ~\E k \in 1..Len(descs) :
            /\ descs[k].component_type = dep.type
            /\ descs[k].key = ""
            /\ descs[k].is_collection
            /\ descs[k].lifetime = (IF dep.is_transient THEN "transient" ELSE "singleton")

EmptyCollectionDependency(descs) ==
    \E i \in 1..Len(descs) : \E j \in 1..Len(descs[i].dependencies) :
        EmptyCollection(descs, descs[i].dependencies[j])

\* every object constructed so far received an empty sequence for each
\* dependency on an empty collection slot
EmptySequencesInjected ==
    \A n \in 1..Len(heap) :
        LET deps == layer_deps(r_descriptors[heap[n].idx], heap[n].layer)
        IN \A j \in 1..Len(deps) :
            EmptyCollection(r_descriptors, deps[j])
            => /\ heap[n].args[j].items = <<>>
               /\ heap[n].args[j].ptr = null

\* C27: with validation on, a collection dependency whose unkeyed collection
\* slot holds no registration makes build() fail with not_found when
\* allow_empty_collections = false; with allow_empty_collections = true (the
\* default) it is accepted and the consumer's factory receives an empty
\* sequence; validation raises not_found for nothing but a missing single
\* dependency or, with allow_empty_collections = false, an empty collection
\* slot, so a collection dependency on a slot with a registration is
\* accepted under both settings.
C27_EmptyCollectionsAllowed ==
    [][\A o \in Options :
        (~built /\ o.validate_on_build /\ build(o))
        => /\ (~o.allow_empty_collections /\ EmptyCollectionDependency(FinalDescriptors))
              => /\ result'.error = "not_found"
                 /\ ~built'
                 /\ ~resolver_returned'
           /\ (result'.error = "not_found" /\ ~built')
              => \/ MissingSingleDependency(FinalDescriptors)
                 \/ /\ ~o.allow_empty_collections
                    /\ EmptyCollectionDependency(FinalDescriptors)
           /\ (o = DefaultOptions /\ ~MissingSingleDependency(FinalDescriptors))
              => ~(result'.error = "not_found" /\ ~built')
           /\ built' => EmptySequencesInjected'
      ]_vars

\* build() returned a resolver whose eager phase constructed a consumer of
\* an empty collection slot with an empty sequence
C27_Witness ==
    /\ built
    /\ resolver_returned
    /\ EmptySequencesInjected
    /\ \E n \in 1..Len(heap) :
        LET deps == layer_deps(r_descriptors[heap[n].idx], heap[n].layer)
        IN \E j \in 1..Len(deps) :
            /\ EmptyCollection(r_descriptors, deps[j])
            /\ heap[n].args[j].items = <<>>

\* a dependency the missing-dependency pass rejects under these options
Unsatisfied(descs, o) ==
    \/ MissingSingleDependency(descs)
    \/ ~o.allow_empty_collections /\ EmptyCollectionDependency(descs)

SomeCaptive(descs) == \E i \in 1..Len(descs) : Captive(descs, i)

\* validation threw: build() ended before `built` was set
Rejected(error) == ~built' /\ result'.error = error

\* how the options gate the passes: no validation error without
\* validate_on_build; lifetime_mismatch only with validate_lifetimes and
\* then for every captive dependency the first pass let through;
\* cyclic_dependency only with detect_cycles and then whenever the cycle
\* pass finds a cycle in what the earlier passes let through
PassesGated(o) ==
    LET descs == FinalDescriptors
    IN /\ ~o.validate_on_build => built'
       /\ Rejected("lifetime_mismatch") => o.validate_lifetimes
       /\ Rejected("cyclic_dependency") => o.detect_cycles
       /\ (/\ o.validate_on_build
           /\ o.validate_lifetimes
           /\ ~Unsatisfied(descs, o)
           /\ SomeCaptive(descs))
          => Rejected("lifetime_mismatch")
       /\ (/\ o.validate_on_build
           /\ o.detect_cycles
           /\ ~Unsatisfied(descs, o)
           /\ ~(o.validate_lifetimes /\ SomeCaptive(descs))
           /\ check_cycles(descs, build_slot_index(descs)).error # "none")
          => Rejected("cyclic_dependency")

\* the configuration's only defect is a captive dependency and
\* validate_lifetimes is off, or its only defect is a cycle and
\* detect_cycles is off
OnlyDefectSwitchedOff(o) ==
    LET descs == FinalDescriptors
    IN /\ o.validate_on_build
       /\ ~Unsatisfied(descs, o)
       /\ \/ /\ SomeCaptive(descs)
             /\ ~HasDirectedCycle(descs)
             /\ ~o.validate_lifetimes
          \/ /\ HasDirectedCycle(descs)
             /\ ~SomeCaptive(descs)
             /\ ~o.detect_cycles

\* C28 as stated: the options gate the validation passes, and a
\* configuration whose only defect is a captive dependency (a cycle) builds
\* successfully when validate_lifetimes (detect_cycles) is false: build()
\* returns a resolver unless a constructor of the eager phase throws.
C28_SwitchedOffDefectBuilds ==
    [][\A o \in Options :
        (~built /\ build(o))
        => /\ PassesGated(o)
           /\ OnlyDefectSwitchedOff(o)
              => /\ built'
                 /\ result'.error \notin ValidationErrors \cup {"diverged"}
      ]_vars

\* build() with detect_cycles off accepted two singletons that depend on
\* each other, a cycle the cycle pass reports, and its eager phase
\* re-entered a factory that was already running: build() never returned
C28_Witness ==
    /\ built
    /\ ~resolver_returned
    /\ result.op = "build"
    /\ result.error = "diverged"
    /\ call_states["main"].status = "diverged"
    /\ HasDirectedCycle(r_descriptors)
    /\ ~SomeCaptive(r_descriptors)
    /\ ~MissingSingleDependency(r_descriptors)
    /\ check_cycles(r_descriptors, build_slot_index(r_descriptors)).error
            = "cyclic_dependency"

\* C29: every cyclic_dependency raised by build() carries a path
\* [T1, ..., Tn, T1]: the first and last types are equal, no other type is
\* repeated, and every consecutive pair is a dependency declared by a
\* descriptor of the first type of the pair in the vector build() validated.
C29_CyclePathIsACycle ==
    [][\A o \in Options :
        (build(o) /\ result'.error = "cyclic_dependency")
        => LET path == result'.cycle
               n == Len(path) - 1
           IN /\ ~built'
              /\ n >= 1
              /\ path[1] = path[n + 1]
              /\ \A i, j \in 1..n : i # j => path[i] # path[j]
              /\ \A i \in 1..n :
                    \E k \in 1..Len(descriptors') :
                        /\ descriptors'[k].component_type = path[i]
                        /\ \E j \in 1..Len(descriptors'[k].dependencies) :
                                descriptors'[k].dependencies[j].type = path[i + 1]
      ]_vars

\* build() raised cyclic_dependency with a path through three different
\* types that returns to the first
C29_Witness ==
    /\ ~built
    /\ result.op = "build"
    /\ result.error = "cyclic_dependency"
    /\ Len(result.cycle) = 4
    /\ result.cycle[1] = result.cycle[4]
    /\ Cardinality({result.cycle[i] : i \in 1..3}) = 3

\* the decorators constructed so far
DecoratorObjects == {n \in 1..Len(heap) : heap[n].layer >= 1}

\* the handle a decorator was constructed with owns its inner object
Owns(n) == heap[n].inner.deleter # nullopt

\* no instance the cache holds has been destroyed while the resolver lives,
\* and no object is destroyed twice
CachedInstancesIntact ==
    /\ alive => \A i \in DOMAIN singletons :
                    singletons[i].ptr # null => deleted[singletons[i].ptr.obj] = 0
    /\ \A n \in 1..Len(heap) : deleted[n] <= 1

Owners(o) ==
    {x \in DOMAIN locals : locals[x].ptr.obj = o /\ locals[x].deleter # nullopt}

\* the deleter has run once for an object that no variable owns any more,
\* and not at all for one that is still owned or was released
DroppedOnceUnlessReleased ==
    \A o \in 1..Len(heap) :
        /\ Cardinality(Owners(o)) <= 1
        /\ deleted[o] = IF o \in released \/ Owners(o) # {} THEN 0 ELSE 1

\* a step runs the deleter of an object only on behalf of a variable that
\* owned it: never for a non-owning or an empty erased_ptr
DroppedByOwnerOnly ==
    \A o \in 1..Len(deleted) : deleted'[o] # deleted[o] => Owners(o) # {}

\* what the claim says of a move from y into x
MoveTransfers(x, y) ==
    /\ locals'[y] = empty_erased
    /\ locals'[x].ptr = locals[y].ptr
    /\ locals'[x].deleter = locals[y].deleter

\* C31 as stated: for any sequence of move-construct, move-assign, reset,
\* release and destroy operations the deleter runs exactly once for each
\* owned object unless it was released, never for a non-owning or empty
\* pointer, and after every move the source is empty and the destination
\* holds the address and the deleter.
C31_MoveEmptiesSource ==
    /\ []DroppedOnceUnlessReleased
    /\ [][DroppedByOwnerOnly]_vars
    /\ [][\A x \in Names : \A y \in Names :
            (move_constructor(x, y) \/ move_assignment(x, y))
                => MoveTransfers(x, y)]_vars

\* C31 amended: the same, where a move assignment of a variable to itself
\* is set apart: it leaves the variable as it was, so a non-empty source is
\* not empty afterwards.
C31_MoveEmptiesOtherSource ==
    /\ []DroppedOnceUnlessReleased
    /\ [][DroppedByOwnerOnly]_vars
    /\ [][\A x \in Names : \A y \in Names :
            (move_constructor(x, y) \/ move_assignment(x, y))
                => IF x = y THEN locals' = locals /\ deleted' = deleted
                   ELSE MoveTransfers(x, y)]_vars

\* an owning pointer was moved into a variable that owned another object,
\* which was deleted by the assignment; a third object was released
C31_Witness ==
    /\ Len(heap) = 3
    /\ \E x \in DOMAIN locals : \E y \in DOMAIN locals :
        /\ x # y
        /\ locals[y] = empty_erased
        /\ Owners(1) = {x}
        /\ deleted[2] = 1
    /\ 3 \in released
    /\ deleted[3] = 0


(***************************************************************************)
(* C32: build() and the resolver's calls terminate.                        *)
(***************************************************************************)
\* C32: with default options and factories that resolve exactly their
\* declared dependencies, build() always terminates, by returning a
\* resolver or by raising an error, whatever was registered, the same type
\* in several slot variants included.
C32_BuildTerminates ==
    [][build(DefaultOptions)
        => /\ result'.error # "diverged"
           /\ \A t \in Threads : call_states'[t].status # "diverged"
      ]_vars

\* a type was registered in two slot variants, validation with default
\* options passed, and the eager resolution is about to enter again the
\* factory at the bottom of two nested factories of its stack
C32_Witness ==
    /\ result = Thrown("build", "diverged", nullopt)
    /\ validate_descriptors(r_descriptors, DefaultOptions).error = "none"
    /\ \E i \in 1..Len(r_descriptors) : \E j \in 1..Len(r_descriptors) :
        /\ r_descriptors[i].component_type = r_descriptors[j].component_type
        /\ r_descriptors[i].lifetime # r_descriptors[j].lifetime
    /\ \E a \in 1..Len(stacks["main"]) : \E b \in 1..Len(stacks["main"]) :
        /\ a < b
        /\ stacks["main"][a].fn = "factory"
        /\ stacks["main"][b].fn = "factory"
        /\ stacks["main"][a].idx # stacks["main"][b].idx

(***************************************************************************)
(* C33: a resolver built with default options never raises not_found on a  *)
(* slot that holds a descriptor.                                           *)
(***************************************************************************)
\* the call thread t is inside, as <<accessor, type, key>>
OutermostCall(t) == <<stacks[t][1].fn, stacks[t][1].type, stacks[t][1].key>>

\* C33: after build() succeeded with default options, a call on a slot that
\* holds at least one descriptor, through the accessor of its lifetime and
\* shape, never ends with not_found, whatever the depth at which a
\* dependency is resolved: the descriptors of forwards and placeholders
\* included, every declared dependency is resolvable.
C33_NoNotFoundOnOccupiedSlot ==
    [][\A t \in Threads :
        (/\ \/ stacks[t] # <<>> /\ SlotOf(OutermostCall(t)) # <<>>
            \/ \E c \in Scenarios[family].calls : Calls(t, c) /\ SlotOf(c) # <<>>
         /\ call_states'[t] # call_states[t]
         /\ call_states'[t].status = "threw")
            => call_states'[t].exc.class # "not_found"
      ]_vars

\* create on the slot that holds the placeholder of a forward whose target
\* is itself an alias has run the placeholder's factory and thrown
\* not_found, on a resolver whose descriptors pass default validation
C33_Witness ==
    /\ validate_descriptors(r_descriptors, DefaultOptions).error = "none"
    /\ \E t \in Threads : \E i \in 1..Len(r_descriptors) :
        /\ r_descriptors[i].factory.kind = "placeholder"
        /\ invocations[i] > 0
        /\ find_slot(Machine, r_descriptors[i].component_type, r_descriptors[i].key,
                     "transient", FALSE) # <<>>
        /\ call_states[t].status = "threw"
        /\ call_states[t].exc = exception("not_found", r_descriptors[i].component_type)

(***************************************************************************)
(* C34: every resolver holds one alias per forward and target, and each    *)
(* decorator once.                                                         *)
(***************************************************************************)
\* the descriptors of the resolver that forward entry fwd was expanded to
\* for target descriptor i
AliasesOf(fwd, i) ==
    {j \in 1..Len(r_descriptors) :
        /\ r_descriptors[j].forward_target = fwd.target_type
        /\ r_descriptors[j].component_type = fwd.interface_type
        /\ r_descriptors[j].factory.kind \in {"forward_singleton", "forward_transient"}
        /\ r_descriptors[j].factory.target_idx = i}

\* the registered descriptors a forward entry matches
TargetsOf(fwd) ==
    {i \in 1..Len(r_descriptors) :
        /\ r_descriptors[i].forward_target = nullopt
        /\ r_descriptors[i].component_type = fwd.target_type
        /\ r_descriptors[i].key = ""}

\* the forward entries that are equal to fwd
EntriesLike(fwd) == {k \in 1..Len(forwards) : forwards[k] = fwd}

\* C34: every resolver a registry produces, one produced by a build() that
\* follows a failed build() on the same registry included, holds exactly
\* one forward-expanded descriptor per pair of a forward entry and a
\* matching target descriptor, and has each decorator entry applied exactly
\* once to each descriptor it matches.
C34_ExpandedAndDecoratedOnce ==
    resolver_returned
    => /\ \A k \in 1..Len(forwards) : \A i \in TargetsOf(forwards[k]) :
            Cardinality(AliasesOf(forwards[k], i))
                = Cardinality(EntriesLike(forwards[k]))
       /\ \A i \in 1..Len(r_descriptors) :
            r_descriptors[i].factory.wrappers
                = LayersFor(decorators, r_descriptors[i])

\* a build() that followed a failed build() returned a resolver in which
\* the one forward entry was expanded twice and the one decorator entry is
\* applied twice to a descriptor
C34_Witness ==
    /\ resolver_returned
    /\ result = Ok("build")
    /\ Len(forwards) = 1
    /\ Len(decorators) = 1
    /\ Cardinality({j \in 1..Len(r_descriptors) :
                        r_descriptors[j].forward_target = forwards[1].target_type}) = 2
    /\ \E i \in 1..Len(r_descriptors) :
        /\ decorator_matches(decorators[1], r_descriptors[i])
        /\ r_descriptors[i].factory.wrappers
                = <<[decorator |-> decorators[1].wrapper, extra |-> decorators[1].extra_deps],
                    [decorator |-> decorators[1].wrapper, extra |-> decorators[1].extra_deps]>>

(***************************************************************************)
(* C35: the verdict of the cycle pass does not depend on the order of the  *)
(* registration calls.                                                     *)
(***************************************************************************)
\* the descriptors as they were registered: no build() has touched them
AsRegistered ==
    /\ ~built
    /\ \A i \in 1..Len(descriptors) :
        /\ descriptors[i].forward_target = nullopt
        /\ descriptors[i].factory.wrappers = <<>>

\* the same registrations made in the order p
Reordered(p) == [k \in 1..Len(descriptors) |-> descriptors[p[k]]]

\* what validation says of a build() with options o over the registrations
\* descs
Verdict(descs, o) ==
    validate_descriptors(apply_decorators(decorators, expand_forwards(forwards, descs)),
                         o).error

\* C35: for a fixed set of registrations and fixed build options, whether
\* build() accepts the configuration or rejects it with cyclic_dependency
\* does not depend on the order of the registration calls, the order in
\* which the slot variants of one type were registered included.
C35_CycleVerdictOrderFree ==
    AsRegistered
    => \A p \in Permutations(1..Len(descriptors)) : \A o \in Options :
            (Verdict(Reordered(p), o) = "cyclic_dependency")
                <=> (Verdict(descriptors, o) = "cyclic_dependency")

\* three registrations, two of them slot variants of one type, that default
\* validation accepts in the order made and rejects with cyclic_dependency
\* in another
C35_Witness ==
    /\ AsRegistered
    /\ Len(descriptors) = 3
    /\ \E i \in 1..3 : \E j \in 1..3 :
        /\ descriptors[i].component_type = descriptors[j].component_type
        /\ descriptors[i].lifetime # descriptors[j].lifetime
    /\ Verdict(descriptors, DefaultOptions) = "none"
    /\ \E p \in Permutations(1..3) :
        Verdict(Reordered(p), DefaultOptions) = "cyclic_dependency"

(***************************************************************************)
(* C36: the singleton mutex is held only inside a singleton resolution.    *)
(***************************************************************************)
\* the activations of resolve_singleton_by_index on t's stack that are past
\* their lock_guard
HoldingFrames(t) ==
    {n \in 1..Len(stacks[t]) :
        /\ stacks[t][n].fn = "resolve_singleton_by_index"
        /\ stacks[t][n].pc = "factory"}

\* C36: a thread holds the singleton mutex only while it is inside a
\* singleton resolution, once per nested resolution; on every exit path of
\* its outermost singleton resolution (a return, a container error, a
\* wrapped std::exception, any other thrown value) the thread no longer
\* holds it, so a failed factory never blocks the other threads.
C36_MutexHeldOnlyInside ==
    /\ \A t \in Threads :
        /\ (singleton_mutex.owner = t) <=> (HoldingFrames(t) # {})
        /\ singleton_mutex.owner = t
            => singleton_mutex.count = Cardinality(HoldingFrames(t))
        /\ call_states[t].status # "running" => singleton_mutex.owner # t
    /\ singleton_mutex.owner = no_thread <=> singleton_mutex.count = 0

\* a thread's call ended with a value that is no std::exception thrown by a
\* singleton's constructor, and the other thread is past the lock_guard
\* since
C36_Witness ==
    \E t \in Threads : \E u \in Threads \ {t} :
        /\ call_states[t].status = "threw"
        /\ call_states[t].exc.class = "value"
        /\ \E i \in 1..Len(r_descriptors) :
            /\ r_descriptors[i].lifetime = "singleton"
            /\ failures[i] > 0
        /\ singleton_mutex.owner = u
        /\ HoldingFrames(u) # {}

(***************************************************************************)
(* C37: a singleton whose factory fails leaves the dependencies it had     *)
(* resolved in the cache.                                                  *)
(***************************************************************************)
\* the singleton descriptors that singleton a declares as single
\* dependencies
SingletonDependencies(a) ==
    {b \in Singletons :
        \E j \in 1..Len(r_descriptors[a].dependencies) :
            LET dep == r_descriptors[a].dependencies[j]
            IN /\ ~dep.is_transient
               /\ ~dep.is_collection
               /\ ~r_descriptors[b].is_collection
               /\ r_descriptors[b].component_type = dep.type
               /\ r_descriptors[b].key = ""}

\* C37: when the factory of singleton A has resolved its singleton
\* dependency B and then fails, B keeps its cache entry and its instance,
\* and A gets no entry; a later resolution of A invokes A's factory again
\* and not B's: once B is cached its factory is never invoked again.
C37_DependencyKeptOnFailure ==
    [][\A a \in Singletons : \A b \in SingletonDependencies(a) :
        /\ (failures'[a] > failures[a] /\ b \in DOMAIN singletons)
            => /\ b \in DOMAIN singletons'
               /\ singletons'[b] = singletons[b]
               /\ deleted'[singletons[b].ptr.obj] = 0
               /\ a \notin DOMAIN singletons'
        /\ b \in DOMAIN singletons => invocations'[b] = invocations[b]
        /\ \A t \in Threads :
            (/\ failures[a] > 0
             /\ a \notin DOMAIN singletons
             /\ b \in DOMAIN singletons
             /\ at_lock(t, a)
             /\ stacks'[t] # stacks[t])
            => /\ invocations'[a] = invocations[a] + 1
               /\ invocations'[b] = invocations[b]
      ]_vars

\* A's factory failed after B was cached, a retry ran A's factory a second
\* time and cached A; B's factory ran once in all
C37_Witness ==
    \E a \in Singletons : \E b \in SingletonDependencies(a) :
        /\ failures[a] = 1
        /\ invocations[a] = 2
        /\ a \in DOMAIN singletons
        /\ b \in DOMAIN singletons
        /\ invocations[b] = 1
        /\ failures[b] = 0

(***************************************************************************)
(* C38: validation treats a decorator's extra dependencies like the        *)
(* descriptor's own.                                                       *)
(***************************************************************************)
\* the registry's descriptors, forwards expanded, each declaring the extra
\* dependencies of the decorators that match it as its own
ExtrasDeclared ==
    LET before == expand_forwards(forwards, descriptors)
    IN [i \in 1..Len(before) |->
            [before[i] EXCEPT !.dependencies = @ \o ExtrasFor(decorators, before[i])]]

\* a singleton of the registry is matched by a decorator that declares a
\* transient, non-collection extra dependency
CaptiveExtra ==
    \E i \in 1..Len(descriptors) : \E k \in 1..Len(decorators) :
        /\ descriptors[i].lifetime = "singleton"
        /\ Targets(decorators[k], descriptors[i])
        /\ \E j \in 1..Len(decorators[k].extra_deps) :
            /\ decorators[k].extra_deps[j].is_transient
            /\ ~decorators[k].extra_deps[j].is_collection

\* C38: the extra dependencies a decorator declares are appended to every
\* descriptor it matches before validation runs: the missing-dependency,
\* captive-lifetime and cycle passes give the verdict they give when the
\* descriptor declares them itself. A singleton whose decorator declares a
\* non-collection transient extra dependency is rejected by build() with
\* default options, and accepted with validate_lifetimes = false when that
\* is the only defect.
C38_ExtrasValidatedAsOwn ==
    [][\A o \in Options :
        (~built /\ build(o))
        => LET verdict == validate_before_building(ExtrasDeclared, o)
               lenient == [DefaultOptions EXCEPT !.validate_lifetimes = FALSE]
           IN /\ verdict.error # "none"
                    => /\ result' = Outcome("build", verdict)
                       /\ ~built'
              /\ verdict.error = "none" => built'
              /\ (CaptiveExtra /\ o = DefaultOptions)
                    => /\ result'.error \in ValidationErrors
                       /\ ~built'
                       /\ ~resolver_returned'
              /\ (/\ CaptiveExtra
                  /\ o = lenient
                  /\ validate_before_building(ExtrasDeclared, DefaultOptions).error
                        = "lifetime_mismatch"
                  /\ validate_before_building(ExtrasDeclared, lenient).error = "none")
                    => /\ built'
                       /\ result'.error = "none" => resolver_returned'
      ]_vars

\* a singleton decorated with a decorator that declares a transient extra
\* dependency was rejected with lifetime_mismatch
C38_Witness ==
    /\ ~built
    /\ result.op = "build"
    /\ result.error = "lifetime_mismatch"
    /\ \E i \in 1..Len(descriptors) :
        /\ descriptors[i].lifetime = "singleton"
        /\ Len(descriptors[i].factory.deps) = 0
        /\ Len(descriptors[i].factory.wrappers) = 1
        /\ descriptors[i].factory.wrappers[1].extra = <<dependency_info("B", FALSE, TRUE)>>
        /\ descriptors[i].dependencies = <<dependency_info("B", FALSE, TRUE)>>

(***************************************************************************)
(* C39: a decorator on the alias of a forward wraps the target's instance  *)
(* and leaves the target's own slot alone.                                 *)
(***************************************************************************)
\* forward entry fwd has decorators registered on its interface and none on
\* its target
DecoratedOnAliasOnly(fwd) ==
    /\ \E k \in 1..Len(decorators) : decorators[k].interface_type = fwd.interface_type
    /\ \A k \in 1..Len(decorators) : decorators[k].interface_type # fwd.target_type

\* the decorators registered on an interface, the one registered last first
RECURSIVE RegisteredOn(_, _)
RegisteredOn(decs, type) ==
    IF decs = <<>> THEN <<>>
    ELSE RegisteredOn(Tail(decs), type)
         \o (IF Head(decs).interface_type = type THEN <<Head(decs).wrapper>> ELSE <<>>)

\* C39: for forward(I, T) with decorators registered on I only, resolving I
\* yields the decorators wrapping the instance that resolving T yields (the
\* cached one for a singleton, one made by T's factory for a transient),
\* and resolving T yields the undecorated instance; the order of the
\* decorate and forward calls does not matter.
C39_AliasDecoratedTargetIntact ==
    (resolver_returned /\ alive) =>
        \A n \in 1..Len(forwards) : \A lt \in lifetime_kind :
            LET I == find_slot(Machine, forwards[n].interface_type, "", lt, FALSE)
                T == find_slot(Machine, forwards[n].target_type, "", lt, FALSE)
            IN (DecoratedOnAliasOnly(forwards[n]) /\ T # <<>>)
               => /\ I # <<>>
                  /\ \A o \in Yielded(I[1]) :
                        /\ Layers(o, I[1])
                                = RegisteredOn(decorators, forwards[n].interface_type)
                        /\ heap[Undecorated(pointer(o, nullopt), I[1]).obj].idx = T[1]
                        /\ lt = "singleton"
                            => /\ T[1] \in DOMAIN singletons
                               /\ Undecorated(pointer(o, nullopt), I[1]).obj
                                    = singletons[T[1]].ptr.obj
                  /\ \A o \in Yielded(T[1]) :
                        /\ heap[o].layer = 0
                        /\ heap[o].class = r_descriptors[T[1]].impl_type

\* the descriptor that get<I>() resolves is I's own registration: its
\* cached instance is the decorator over an object of I's own
\* implementation, and the instance cached for the forward's target T is
\* another object
C39_Witness ==
    /\ resolver_returned
    /\ alive
    /\ Len(forwards) = 1
    /\ DecoratedOnAliasOnly(forwards[1])
    /\ LET I == find_slot(Machine, forwards[1].interface_type, "", "singleton", FALSE)
           T == find_slot(Machine, forwards[1].target_type, "", "singleton", FALSE)
       IN /\ I # <<>>
          /\ T # <<>>
          /\ r_descriptors[I[1]].forward_target = nullopt
          /\ I[1] \in DOMAIN singletons
          /\ T[1] \in DOMAIN singletons
          /\ Layers(singletons[I[1]].ptr.obj, I[1]) = <<"D1">>
          /\ Undecorated(singletons[I[1]].ptr, I[1]).obj # singletons[T[1]].ptr.obj

(***************************************************************************)
(* C40: singleton construction is serialised.                              *)
(***************************************************************************)
\* the singleton descriptors whose factory is running on thread t
ConstructingSingletons(t) ==
    {stacks[t][n].idx : n \in HoldingFrames(t)}

\* C40: in every state all singleton factory invocations in progress belong
\* to one thread, nested on its stack, and a singleton has a cache entry
\* only once its factory has returned successfully: never while the factory
\* is running, and the entry appears in the step in which the factory
\* completes.
C40_SingletonConstructionSerialised ==
    /\ [](\A t \in Threads : \A u \in Threads \ {t} :
            ConstructingSingletons(t) = {} \/ ConstructingSingletons(u) = {})
    /\ [](\A t \in Threads : \A i \in ConstructingSingletons(t) :
            /\ i \notin DOMAIN singletons
            /\ invocations[i] = completions[i] + failures[i] + 1)
    /\ [](\A i \in DOMAIN singletons :
            /\ completions[i] > 0
            /\ singletons[i].ptr # null
            /\ heap[singletons[i].ptr.obj].layer
                    = Len(r_descriptors[i].factory.wrappers))
    /\ [][\A i \in DOMAIN singletons' \ DOMAIN singletons :
            /\ completions'[i] = completions[i] + 1
            /\ \E t \in Threads : i \in ConstructingSingletons(t)]_vars

\* one thread runs the factory of a singleton nested in the factory of
\* another, neither has a cache entry yet, and the other thread waits at
\* the lock
C40_Witness ==
    \E t \in Threads : \E u \in Threads \ {t} :
        /\ Cardinality(ConstructingSingletons(t)) = 2
        /\ ConstructingSingletons(t) \cap DOMAIN singletons = {}
        /\ stacks[u] # <<>>
        /\ Top(Machine, u).fn = "resolve_singleton_by_index"
        /\ Top(Machine, u).pc = "lock"
        /\ Top(Machine, u).idx \in ConstructingSingletons(t)

====
